---- MODULE Spec2Model ----
(***************************************************************************)
(* A model of the Emphatic FAT32 driver (emphatic-fs): the free-space map  *)
(* of fat_alloc.c, the FAT sector cache of table.c, the handle table of    *)
(* inode_table.c and fileio.c, the directory layer of directory.c and the  *)
(* operations of create.c and mfatic-fuse.c.                               *)
(*                                                                         *)
(* How the C text is read.                                                 *)
(*  - A 32 bit unsigned word is held as the signed 32 bit integer with the *)
(*    same bit pattern (0xFFFFFFFF is -1), so that + and - are the C       *)
(*    operations modulo 2^32; ULT, UGT are the unsigned comparisons.       *)
(*  - A linked list is a sequence; a pointer to a link ("struct x **") is  *)
(*    a position in it, position Len + 1 being the link that holds NULL.   *)
(*  - A value the code reads without having written it is chosen from a    *)
(*    small set by the action that creates the object.                     *)
(*  - The daemon ending (a NULL or wild dereference, a device access that  *)
(*    safe_read/safe_write abort on) sets fault; nothing runs afterwards.  *)
(***************************************************************************)
EXTENDS Integers, Sequences, FiniteSets, TLC

VARIABLES
    volume_info,            \* geometry read from the super block
    fat,                    \* the file allocation table on the device
    free_map,               \* fat_alloc.c: list of free regions
    map_tail,               \* the next field of the last region of free_map
    nr_allocated_clusters,  \* fat_alloc.c: statistics
    nr_available_clusters,
    cache,                  \* table.c: the FAT sector cache
    fault,                  \* "no", "dead" (the daemon ended) or "spin" (a call never returns)
    op,                     \* the last operation, its arguments and result
    nops,                   \* how many operations have been called
    disk,                   \* the data clusters of the device
    heap,                   \* the fat_file_t structures safe_malloc has handed out
    files_list,             \* fileio.c: list of open files
    active_dirs,            \* directory.c: list of active directories
    fhs,                    \* the fh values FUSE holds for its clients
    junk,                   \* what memory the daemon never wrote holds when it is read
    threads,                \* the threads of the FUSE loop: where each is in its request
    boot                    \* main: where the program is, and the FSInfo magics on the device

fsvars == <<disk, heap, files_list, active_dirs, fhs>>

vars == <<volume_info, fat, free_map, map_tail, nr_allocated_clusters,
          nr_available_clusters, cache, fault, op, nops, fsvars, junk, threads, boot>>

(***************************************************************************)
(* Bounds of the model.                                                    *)
(***************************************************************************)
\* cache entries the model lets safe_malloc hand out
MaxNodes == 3
\* calls of the allocator in one run
MaxAllocOps == 4
\* calls of get_fat_entry and put_fat_entry in one run
MaxTableOps == 5
\* fat_file_t structures the model lets safe_malloc hand out
MaxHandles == 6
\* requests FUSE passes to the daemon in one run
MaxFsOps == 3

(***************************************************************************)
(* fat.h                                                                   *)
(***************************************************************************)
END_CLUSTER_MARK == 268435448
BAD_CLUSTER_MARK == 268435447

\* 0x10000000: the low 28 bits of a cell are the linkage.
LinkRange == 2 ^ 28

LowBits(entry) == entry % LinkRange
HighBits(entry) == entry - LowBits(entry)

IS_LAST_CLUSTER(entry) == LowBits(entry) >= END_CLUSTER_MARK
IS_BAD_CLUSTER(entry) == LowBits(entry) = BAD_CLUSTER_MARK
IS_FREE_CLUSTER(entry) == LowBits(entry) = 0

\* unsigned comparison of two 32 bit words
ULT(a, b) == IF (a < 0) = (b < 0) THEN a < b ELSE b < 0
UGT(a, b) == ULT(b, a)

NrCells == volume_info.nr_entries * volume_info.fat_sectors
Cells == 0 .. (NrCells - 1)

(***************************************************************************)
(* table.c: put_fat_entry writes the cell on the device, keeping the four  *)
(* reserved bits; the cache is not touched.  A cell outside the table is   *)
(* outside the model's device.                                             *)
(***************************************************************************)
put_fat_entry_whole_word(f, entry, val) ==
    [f EXCEPT ![entry] = val]

put_fat_entry(f, entry, val) ==
    [f EXCEPT ![entry] = HighBits(f[entry]) + LowBits(val)]

(***************************************************************************)
(* fat_alloc.c                                                             *)
(***************************************************************************)
Region(s, l) == [start |-> s, length |-> l]

\* One cell of the scan: st = [list, prev_alloced, alloc, avail].
build_free_cell(st, e) ==
    IF IS_FREE_CLUSTER(e)
    THEN IF st.prev_alloced
         THEN [st EXCEPT !.prev_alloced = FALSE,
                         !.list = Append(st.list, Region(e, 1)),
                         !.avail = st.avail + 1]
         ELSE [st EXCEPT !.list[Len(st.list)].length = st.list[Len(st.list)].length + 1,
                         !.avail = st.avail + 1]
    ELSE [st EXCEPT !.prev_alloced = TRUE, !.alloc = st.alloc + 1]

RECURSIVE build_free_list(_, _, _, _)
build_free_list(buffer, length, i, st) ==
    IF i >= length THEN st
    ELSE build_free_list(buffer, length, i + 1, build_free_cell(st, buffer[i + 1]))

\* The sector of the FAT with the given index, as the buffer safe_read fills.
FatSector(f, geo, s) == [i \in 1 .. geo.nr_entries |-> f[s * geo.nr_entries + (i - 1)]]

RECURSIVE init_sectors(_, _, _, _)
init_sectors(f, geo, s, st) ==
    IF s >= geo.fat_sectors THEN st
    ELSE init_sectors(f, geo, s + 1,
                      build_free_list(FatSector(f, geo, s), geo.nr_entries, 0, st))

\* The first list entry has length 0; its start is never written.
init_clusters_map(f, geo, head_start) ==
    init_sectors(f, geo, 0,
                 [list |-> <<Region(head_start, 0)>>, prev_alloced |-> TRUE,
                  alloc |-> 0, avail |-> 0])

used_clusters == nr_allocated_clusters
free_clusters == nr_available_clusters

distance(region, cluster) ==
    IF ULT(cluster, region.start)
    THEN region.start - cluster
    ELSE cluster - (region.start + region.length)

nearest(map, current, candidate, cmp) ==
    IF ULT(distance(map[candidate], cmp), distance(map[current], cmp))
    THEN candidate ELSE current

largest(map, current, candidate, cmp) ==
    IF UGT(map[candidate].length, map[current].length) THEN candidate ELSE current

\* callback is "nearest" or "largest"; the result is a position of map.
RECURSIVE traverse_map(_, _, _, _, _)
traverse_map(map, callback, cluster, current, candidate) ==
    IF candidate > Len(map) THEN current
    ELSE traverse_map(map, callback, cluster,
                      IF callback = "nearest"
                      THEN nearest(map, current, candidate, cluster)
                      ELSE largest(map, current, candidate, cluster),
                      candidate + 1)

RemoveAt(s, k) == SubSeq(s, 1, k - 1) \o SubSeq(s, k + 1, Len(s))

\* map is not empty.  The result is the cluster taken and the map left.
get_nearest_free(map, near) ==
    LET reg == traverse_map(map, "nearest", near, 1, 1)
        r == map[reg]
        front == ULT(near, r.start)
        alloc == IF front THEN r.start ELSE r.start + r.length - 1
        shrunk == Region(IF front THEN r.start + 1 ELSE r.start, r.length - 1)
    IN  [alloc |-> alloc,
         map |-> IF shrunk.length = 0 THEN RemoveAt(map, reg)
                 ELSE [map EXCEPT ![reg] = shrunk]]

\* The list that replaces <<reg>> in the link that pointed to reg, given the
\* regions that followed reg.
merge_region(reg, rest, released) ==
    LET outside == ULT(released, reg.start - 1)
                     \/ UGT(released, reg.start + reg.length)
        after == UGT(released, reg.start + reg.length)
        s1 == IF released = reg.start - 1 THEN reg.start - 1 ELSE reg.start
        l1 == IF released = s1 + reg.length THEN reg.length + 1 ELSE reg.length
        reg1 == Region(s1, l1)
    IN  IF outside
        THEN IF after
             THEN <<Region(released, 1)>> \o rest
             ELSE <<Region(released, 1), reg1>> \o rest
        ELSE <<reg1>> \o rest

\* left and right are positions; left = 0 is the link that holds NULL.
merge_free_regions(map, left, right, released) ==
    LET hasL == left >= 1
        hasR == right <= Len(map)
    IN  IF ~hasL /\ hasR
        THEN SubSeq(map, 1, right - 1)
               \o merge_region(map[right], SubSeq(map, right + 1, Len(map)), released)
        ELSE IF hasL /\ hasR
        THEN IF released = map[right].start - 1
             THEN [map EXCEPT ![right].start = released]
             ELSE SubSeq(map, 1, left - 1)
                    \o merge_region(map[left], SubSeq(map, left + 1, Len(map)), released)
        ELSE IF hasL /\ ~hasR
        THEN SubSeq(map, 1, left - 1)
               \o merge_region(map[left], SubSeq(map, left + 1, Len(map)), released)
        ELSE map

\* The position release_cluster's loop stops at: the first region whose
\* start is not below c, or Len + 1.
RECURSIVE release_scan(_, _, _)
release_scan(map, c, right) ==
    IF right <= Len(map) /\ ULT(map[right].start, c)
    THEN release_scan(map, c, right + 1)
    ELSE right

(***************************************************************************)
(* table.c: the sector cache.  A cache_entry_t lives at an address of      *)
(* cache.mem; address 0 is NULL.  An entry is "unused" (never allocated),  *)
(* "live" or "freed".                                                      *)
(***************************************************************************)
\* mfatic-config.h sets 128; the model takes a capacity that eviction is
\* within reach of.
CACHE_SECTORS_MAX == 2

NodeAddrs == 1 .. MaxNodes

NoNode == [state |-> "unused", key |-> 0, sector |-> <<>>, next |-> 0]

table_init ==
    [lru |-> 0, mru |-> 0, available |-> CACHE_SECTORS_MAX,
     mem |-> [a \in NodeAddrs |-> NoNode]]

\* A link of the list: the lru field (0) or the next field of the entry at a.
Link(c, slot) == IF slot = 0 THEN c.lru ELSE c.mem[slot].next

SetLink(c, slot, p) ==
    IF slot = 0 THEN [c EXCEPT !.lru = p] ELSE [c EXCEPT !.mem[slot].next = p]

unlink_item(c, slot) ==
    [SetLink(c, slot, c.mem[Link(c, slot)].next) EXCEPT !.available = c.available + 1]

add_to_mru(c, new_item) ==
    LET c1 == IF c.available = 0
              THEN [unlink_item(c, 0) EXCEPT !.mem[c.lru].state = "freed"]
              ELSE [c EXCEPT !.available = c.available - 1]
        c2 == [c1 EXCEPT !.mem[new_item].next = c1.mru, !.mru = new_item]
    IN  IF c2.lru = 0 THEN [c2 EXCEPT !.lru = new_item] ELSE c2

\* The walk of lookup_item from the lru link: where it ends, and how.
RECURSIVE lookup_walk(_, _, _, _, _)
lookup_walk(c, key, slot, fuel, uaf) ==
    LET p == Link(c, slot) IN
    IF p = 0 THEN [how |-> "miss", slot |-> slot]
    ELSE IF c.mem[p].state = "freed" /\ uaf = "dead" THEN [how |-> "dead", slot |-> slot]
    ELSE IF c.mem[p].key = key THEN [how |-> "hit", slot |-> slot]
    ELSE IF fuel = 0 THEN [how |-> "spin", slot |-> slot]
    ELSE lookup_walk(c, key, p, fuel - 1, uaf)

lookup_item(c, key, uaf) ==
    LET w == lookup_walk(c, key, 0, MaxNodes, uaf)
        found == Link(c, w.slot)
    IN  IF w.how = "hit"
        THEN [how |-> "hit", found |-> found, cache |-> add_to_mru(unlink_item(c, w.slot), found)]
        ELSE [how |-> w.how, found |-> 0, cache |-> c]

FreeAddrs(c) == {a \in NodeAddrs : c.mem[a].state = "unused"}

\* get_sector: the entry that holds the sector, and the cache afterwards.
get_sector(c, f, geo, index, uaf) ==
    LET l == lookup_item(c, index, uaf) IN
    IF l.how = "miss"
    THEN LET a == CHOOSE x \in FreeAddrs(c) : \A y \in FreeAddrs(c) : x <= y
             c1 == [c EXCEPT !.mem[a] = [state |-> "live", key |-> index,
                                          sector |-> FatSector(f, geo, index),
                                          next |-> 0]]
         IN  [how |-> "ok", item |-> a, cache |-> add_to_mru(c1, a)]
    ELSE IF l.how = "hit"
    THEN [how |-> "ok", item |-> l.found, cache |-> l.cache]
    ELSE [how |-> l.how, item |-> 0, cache |-> c]

\* get_fat_entry: entry is a cell of the table.
get_fat_entry(c, f, geo, entry, uaf) ==
    LET g == get_sector(c, f, geo, entry \div geo.nr_entries, uaf) IN
    IF g.how = "ok"
    THEN [how |-> "ok", cache |-> g.cache,
          val |-> g.cache.mem[g.item].sector[(entry % geo.nr_entries) + 1]]
    ELSE [how |-> g.how, cache |-> c, val |-> 0]

(***************************************************************************)
(* fat_alloc.c: the two public operations, as functions of the map, the    *)
(* next field of its last region, and the table on the device.             *)
(***************************************************************************)
\* new_cluster without the write that links the end of the chain to the
\* cluster chosen
new_cluster_unlinked(map, tail, f, near) ==
    IF tail = "wild" \/ Len(map) = 0
    THEN [how |-> "dead", chosen |-> 0, map |-> map, fat |-> f]
    ELSE LET r == get_nearest_free(map, near) IN
         IF r.alloc \notin DOMAIN f
         THEN [how |-> "dead", chosen |-> r.alloc, map |-> r.map, fat |-> f]
         ELSE [how |-> "ok", chosen |-> r.alloc, map |-> r.map,
               fat |-> put_fat_entry(f, r.alloc, END_CLUSTER_MARK)]

new_cluster(map, tail, f, near) ==
    IF tail = "wild" \/ Len(map) = 0
    THEN [how |-> "dead", chosen |-> 0, map |-> map, fat |-> f]
    ELSE LET r == get_nearest_free(map, near) IN
         IF r.alloc \notin DOMAIN f
         THEN [how |-> "dead", chosen |-> r.alloc, map |-> r.map, fat |-> f]
         ELSE IF near \notin DOMAIN f
         THEN [how |-> "dead", chosen |-> r.alloc, map |-> r.map,
               fat |-> put_fat_entry(f, r.alloc, END_CLUSTER_MARK)]
         ELSE [how |-> "ok", chosen |-> r.alloc, map |-> r.map,
               fat |-> put_fat_entry(put_fat_entry(f, r.alloc, END_CLUSTER_MARK),
                                     near, r.alloc)]

release_cluster(map, tail, f, c) ==
    LET right == release_scan(map, c, 1) IN
    IF right > Len(map) /\ tail = "wild"
    THEN [how |-> "dead", map |-> map, fat |-> f]
    ELSE LET merged == merge_free_regions(map, right - 1, right, c) IN
         IF c \notin DOMAIN f
         THEN [how |-> "dead", map |-> merged, fat |-> f]
         ELSE [how |-> "ok", map |-> merged, fat |-> put_fat_entry(f, c, 0)]

(***************************************************************************)
(* The free-space map alone: mount on a volume, then any calls of          *)
(* new_cluster on the end of a chain and release_cluster on a cluster in   *)
(* use.                                                                    *)
(***************************************************************************)
Op(name, args, ret) == [name |-> name, args |-> args, ret |-> ret]

\* what the never-written start of the first list entry may hold
IndeterminateStart == {0, 4}

\* The threads fuse_main serves requests with, and a thread that serves
\* none: pc is the statement of new_cluster the thread is to run next.
Threads == {1, 2}
Idle == [t \in Threads |-> [pc |-> "idle", near |-> 0, chosen |-> 0]]

\* const.h, which holds FSINFO_MAGIC1, FSINFO_MAGIC2 and FSINFO_MAGIC3, is
\* not among the sources: the three values are those fat.h gives in the
\* comments of fat_fsinfo_t, 0x41615252, 0x61417272 and 0xAA55.
FSINFO_MAGIC == <<1096897106, 1631679090, 43605>>

AllocGeometry == [nr_entries |-> 3, fat_sectors |-> 2, cluster_size |-> 2]

\* Cells 0 and 1 are reserved (0x0FFFFFF8, 0x0FFFFFFF); a data cell is free,
\* the end of a chain, or bad.
AllocFats ==
    {f \in [0 .. 5 -> {0, END_CLUSTER_MARK, BAD_CLUSTER_MARK, END_CLUSTER_MARK + 7}] :
        /\ f[0] = END_CLUSTER_MARK
        /\ f[1] = END_CLUSTER_MARK + 7
        /\ \A c \in 2 .. 5 : f[c] # END_CLUSTER_MARK + 7}

AllocInit ==
    \E f \in AllocFats, g \in IndeterminateStart, t \in {"null", "wild"} :
        LET st == init_clusters_map(f, AllocGeometry, g) IN
        /\ volume_info = AllocGeometry
        /\ fat = f
        /\ free_map = st.list
        /\ map_tail = IF Len(st.list) = 1 THEN t ELSE "null"
        /\ nr_allocated_clusters = st.alloc
        /\ nr_available_clusters = st.avail
        /\ cache = table_init
        /\ fault = "no"
        /\ op = Op("mount", <<>>, 0)
        /\ nops = 0
        /\ disk = <<>>
        /\ heap = <<>>
        /\ files_list = <<>>
        /\ active_dirs = <<>>
        /\ fhs = <<>>
        /\ junk = <<>>
        /\ threads = Idle
        /\ boot = [pc |-> "mounted", fsinfo |-> FSINFO_MAGIC]

NewCluster(near) ==
    /\ fault = "no"
    /\ nops < MaxAllocOps
    /\ nops' = nops + 1
    /\ IS_LAST_CLUSTER(fat[near])
    /\ LET r == new_cluster(free_map, map_tail, fat, near) IN
        /\ free_map' = r.map
        /\ fat' = r.fat
        /\ fault' = IF r.how = "ok" THEN "no" ELSE "dead"
        /\ nr_allocated_clusters' = IF r.how = "ok" THEN nr_allocated_clusters + 1
                                    ELSE nr_allocated_clusters
        /\ nr_available_clusters' = IF r.how = "ok" THEN nr_available_clusters - 1
                                    ELSE nr_available_clusters
        /\ op' = Op("new_cluster", <<near>>, r.chosen)
    /\ UNCHANGED <<volume_info, map_tail, cache, fsvars, junk, threads, boot>>

ReleaseCluster(c) ==
    /\ fault = "no"
    /\ nops < MaxAllocOps
    /\ nops' = nops + 1
    /\ ~IS_FREE_CLUSTER(fat[c])
    /\ ~IS_BAD_CLUSTER(fat[c])
    /\ LET r == release_cluster(free_map, map_tail, fat, c) IN
        /\ free_map' = r.map
        /\ fat' = r.fat
        /\ fault' = IF r.how = "ok" THEN "no" ELSE "dead"
        /\ nr_allocated_clusters' = IF r.how = "ok" THEN nr_allocated_clusters - 1
                                    ELSE nr_allocated_clusters
        /\ nr_available_clusters' = IF r.how = "ok" THEN nr_available_clusters + 1
                                    ELSE nr_available_clusters
        /\ op' = Op("release_cluster", <<c>>, 0)
    /\ UNCHANGED <<volume_info, map_tail, cache, fsvars, junk, threads, boot>>

AllocNext ==
    \/ \E near \in 2 .. (NrCells - 1) : NewCluster(near)
    \/ \E c \in 2 .. (NrCells - 1) : ReleaseCluster(c)

SpecAlloc == AllocInit /\ [][AllocNext]_vars

(***************************************************************************)
(* The daemon under the FUSE loop.  main hands the callbacks to fuse_main  *)
(* with the arguments of the command line; unless these hold -s the loop   *)
(* serves every request on a thread of its own.  No callback takes a lock, *)
(* so a thread runs the statements of new_cluster whenever it is scheduled.*)
(* A request here is one that extends a chain: it calls new_cluster on the *)
(* end of a chain.                                                         *)
(***************************************************************************)
\* requests the loop dispatches in one run
MaxRequests == 2

BridgeUnchanged == UNCHANGED <<volume_info, map_tail, cache, fsvars, junk, boot>>

\* fuse_main dispatches a request to a thread that serves none.
FuseDispatch(t, near) ==
    /\ fault = "no"
    /\ nops < MaxRequests
    /\ threads[t].pc = "idle"
    /\ IS_LAST_CLUSTER(fat[near])
    /\ nops' = nops + 1
    /\ threads' = [threads EXCEPT ![t] = [pc |-> "get_nearest_free", near |-> near,
                                          chosen |-> 0]]
    /\ UNCHANGED <<fat, free_map, nr_allocated_clusters, nr_available_clusters, fault, op>>
    /\ BridgeUnchanged

\* chosen = get_nearest_free (near)
NewClusterChoose(t) ==
    /\ fault = "no"
    /\ threads[t].pc = "get_nearest_free"
    /\ IF map_tail = "wild" \/ Len(free_map) = 0
       THEN /\ fault' = "dead"
            /\ UNCHANGED <<free_map, threads>>
       ELSE LET r == get_nearest_free(free_map, threads[t].near) IN
            /\ free_map' = r.map
            /\ threads' = [threads EXCEPT ![t].pc = "put_end", ![t].chosen = r.alloc]
            /\ fault' = fault
    /\ UNCHANGED <<fat, nr_allocated_clusters, nr_available_clusters, op, nops>>
    /\ BridgeUnchanged

\* put_fat_entry (chosen, END_CLUSTER_MARK)
NewClusterMark(t) ==
    /\ fault = "no"
    /\ threads[t].pc = "put_end"
    /\ IF threads[t].chosen \notin DOMAIN fat
       THEN /\ fault' = "dead"
            /\ UNCHANGED <<fat, threads>>
       ELSE /\ fat' = put_fat_entry(fat, threads[t].chosen, END_CLUSTER_MARK)
            /\ threads' = [threads EXCEPT ![t].pc = "put_link"]
            /\ fault' = fault
    /\ UNCHANGED <<free_map, nr_allocated_clusters, nr_available_clusters, op, nops>>
    /\ BridgeUnchanged

\* put_fat_entry (near, chosen)
NewClusterLink(t) ==
    /\ fault = "no"
    /\ threads[t].pc = "put_link"
    /\ fat' = put_fat_entry(fat, threads[t].near, threads[t].chosen)
    /\ threads' = [threads EXCEPT ![t].pc = "stats"]
    /\ UNCHANGED <<free_map, nr_allocated_clusters, nr_available_clusters, fault, op, nops>>
    /\ BridgeUnchanged

\* the statistics are updated and new_cluster returns
NewClusterReturn(t) ==
    /\ fault = "no"
    /\ threads[t].pc = "stats"
    /\ nr_allocated_clusters' = nr_allocated_clusters + 1
    /\ nr_available_clusters' = nr_available_clusters - 1
    /\ op' = Op("new_cluster", <<threads[t].near>>, threads[t].chosen)
    /\ threads' = [threads EXCEPT ![t] = Idle[t]]
    /\ UNCHANGED <<fat, free_map, fault, nops>>
    /\ BridgeUnchanged

BridgeNext ==
    \/ \E t \in Threads, near \in 2 .. (NrCells - 1) : FuseDispatch(t, near)
    \/ \E t \in Threads : NewClusterChoose(t)
    \/ \E t \in Threads : NewClusterMark(t)
    \/ \E t \in Threads : NewClusterLink(t)
    \/ \E t \in Threads : NewClusterReturn(t)

SpecBridge == AllocInit /\ [][BridgeNext]_vars

(***************************************************************************)
(* The FAT cache alone: table_init, then any calls of get_fat_entry and    *)
(* put_fat_entry.                                                          *)
(***************************************************************************)
TableGeometry == [nr_entries |-> 2, fat_sectors |-> 2, cluster_size |-> 2]

\* Cells whose reserved bits are set (0x10000000, 0xFFFFFFFF) or clear.
TableFats ==
    {f \in [0 .. 3 -> {END_CLUSTER_MARK, LinkRange, 3, -1}] :
        /\ f[0] = END_CLUSTER_MARK
        /\ f[1] = -1
        /\ f[2] \in {LinkRange, 3}
        /\ f[3] \in {LinkRange, END_CLUSTER_MARK}}

\* the values put_fat_entry is called with
PutValues == {0, 5 * LinkRange + 3}

TableInit ==
    /\ volume_info = TableGeometry
    /\ fat \in TableFats
    /\ free_map = <<>>
    /\ map_tail = "null"
    /\ nr_allocated_clusters = 0
    /\ nr_available_clusters = 0
    /\ cache = table_init
    /\ fault = "no"
    /\ op = Op("mount", <<>>, 0)
    /\ nops = 0
    /\ disk = <<>>
    /\ heap = <<>>
    /\ files_list = <<>>
    /\ active_dirs = <<>>
    /\ fhs = <<>>
    /\ junk = <<>>
    /\ threads = Idle
    /\ boot = [pc |-> "mounted", fsinfo |-> FSINFO_MAGIC]

GetFatEntry(entry, uaf) ==
    /\ fault = "no"
    /\ nops < MaxTableOps
    /\ nops' = nops + 1
    /\ FreeAddrs(cache) # {}
    /\ LET g == get_fat_entry(cache, fat, volume_info, entry, uaf) IN
        /\ cache' = g.cache
        /\ fault' = IF g.how = "ok" THEN "no" ELSE g.how
        /\ op' = Op("get_fat_entry", <<entry>>, g.val)
    /\ UNCHANGED <<volume_info, fat, free_map, map_tail, nr_allocated_clusters,
                   nr_available_clusters, fsvars, junk, threads, boot>>

PutFatEntry(entry, val) ==
    /\ fault = "no"
    /\ nops < MaxTableOps
    /\ nops' = nops + 1
    /\ fat' = put_fat_entry(fat, entry, val)
    /\ op' = Op("put_fat_entry", <<entry, val>>, 0)
    /\ UNCHANGED <<volume_info, free_map, map_tail, nr_allocated_clusters,
                   nr_available_clusters, cache, fault, fsvars, junk, threads, boot>>

TableNext ==
    \/ \E entry \in Cells, uaf \in {"dead", "stale"} : GetFatEntry(entry, uaf)
    \/ \E entry \in Cells, val \in PutValues : PutFatEntry(entry, val)

SpecTable == TableInit /\ [][TableNext]_vars

(***************************************************************************)
(* The file layer.  The device is read and written in units of a directory *)
(* entry (sizeof (fat_direntry_t)): a unit holds one slot of a directory,  *)
(* or one unit of a file's data, which is the same storage.  The           *)
(* functions below take the state of the daemon as a record st and give    *)
(* the state they leave:                                                   *)
(*   fat, cache, free_map, alloc, avail, disk, heap, files_list,           *)
(*   active_dirs   the variables of the same names;                        *)
(*   ub    a step with no defined behaviour was made (a NULL link or a     *)
(*         released or never-written pointer was followed);                *)
(*   end   "no", or how the daemon ended ("dead", "spin").                 *)
(* j holds the values the call finds in memory it never wrote.  They are   *)
(* chosen when the volume is mounted and are the same at every call.       *)
(***************************************************************************)
ATTR_READ_ONLY == 1
ATTR_DIRECTORY == 16

FL_DELETE_ON_CLOSE == "FL_DELETE_ON_CLOSE"

ENOENT == 2
EACCES == 13
ENOTDIR == 20
EINVAL == 22
EOF == 0 - 1

\* v, then what F makes of it: the value a call returned, bound once.
Then(v, F(_)) == F(v)

HasAttr(attributes, bit) == (attributes \div bit) % 2 = 1

Slot(n, a, c, s) == [fname |-> n, attributes |-> a, cluster |-> c, size |-> s]

\* a unit of zero bytes: a slot that is not in use
NoSlot == Slot("", 0, 0, 0)

DIR_CLUSTER_START(entry) == entry.cluster

CLUSTER_SIZE == volume_info.cluster_size

HandleIds == 1 .. MaxHandles

NoHandle ==
    [state |-> "unused", name |-> "", inode |-> 0, clusters |-> <<>>, size |-> 0,
     offset |-> 0, current_cluster |-> 0, attributes |-> 0, directory_inode |-> 0,
     dir_entry_index |-> 0, flags |-> {}]

\* A field of a released structure is read: what it held is still there,
\* and the read has no defined behaviour.
Touch(st, fd) == [st EXCEPT !.ub = st.ub \/ st.heap[fd].state # "live"]

(***************************************************************************)
(* inode_table.c.  which is "files_list" or "active_dirs".                 *)
(***************************************************************************)
\* The link get_inode stops at.  The loop reads INODE (*list) before it
\* tests *list, so reaching the NULL link is a read through NULL.
get_inode(list, hp, inode) ==
    LET hits == {p \in 1 .. Len(list) : hp[list[p].file].inode = inode}
        pos == IF hits = {} THEN Len(list) + 1
               ELSE CHOOSE p \in hits : \A q \in hits : p <= q
    IN  [pos |-> pos,
         ub |-> \/ pos > Len(list)
                \/ \E q \in 1 .. Len(list) : q <= pos /\ hp[list[q].file].state # "live"]

ilist_add(st, which, fd) ==
    [st EXCEPT ![which] = <<[file |-> fd, refcount |-> 1]>> \o st[which]]

ilist_lookup_file(st, which, inode) ==
    Then(get_inode(st[which], st.heap, inode), LAMBDA g :
        LET found == g.pos <= Len(st[which])
            st1 == [st EXCEPT !.ub = st.ub \/ g.ub]
        IN  [found |-> found,
             fd |-> IF found THEN st[which][g.pos].file ELSE 0,
             st |-> IF found THEN [st1 EXCEPT ![which][g.pos].refcount = @ + 1]
                    ELSE st1])

ilist_unlink(st, which, inode) ==
    Then(get_inode(st[which], st.heap, inode), LAMBDA g :
        LET st1 == [st EXCEPT !.ub = st.ub \/ g.ub] IN
        IF g.pos > Len(st[which]) THEN st1
        ELSE IF st[which][g.pos].refcount - 1 # 0
        THEN [st1 EXCEPT ![which][g.pos].refcount = @ - 1]
        ELSE LET fd == st[which][g.pos].file IN
             [st1 EXCEPT ![which] = RemoveAt(st[which], g.pos),
                         !.heap[fd].state = "freed",
                         !.ub = st1.ub \/ st.heap[fd].state # "live"])

(***************************************************************************)
(* fileio.c.  A cluster_list_t * is a position of the handle's clusters,   *)
(* 0 being NULL.                                                           *)
(***************************************************************************)
\* the cursor left where it was
update_current_cluster_kept(st, fd) == st

update_current_cluster(st, fd) ==
    LET h == st.heap[fd]
        i == h.offset \div CLUSTER_SIZE
    IN  [st EXCEPT !.heap[fd].current_cluster = IF i + 1 <= Len(h.clusters) THEN i + 1 ELSE 0]

set_offset(st, fd, newoff) ==
    IF newoff >= 0 /\ newoff < st.heap[fd].size
    THEN [st |-> [st EXCEPT !.heap[fd].offset = newoff], ret |-> newoff]
    ELSE [st |-> st, ret |-> 0 - EINVAL]

fat_seek(st, fd, offset, whence) ==
    Then(set_offset(Touch(st, fd), fd,
                    IF whence = "SEEK_SET" THEN offset
                    ELSE IF whence = "SEEK_CUR" THEN st.heap[fd].offset + offset
                    ELSE (st.heap[fd].size - 1) + offset),
         LAMBDA s : [st |-> update_current_cluster(s.st, fd), ret |-> s.ret])

count_clusters(nbytes) ==
    (nbytes \div CLUSTER_SIZE) + (IF nbytes % CLUSTER_SIZE # 0 THEN 1 ELSE 0)

Min(a, b) == IF a <= b THEN a ELSE b

\* One unit range of a cluster, read or overwritten.
ReadUnits(d, c, at, n) == SubSeq(d[c], at + 1, at + n)
WriteUnits(d, c, at, data) ==
    [d EXCEPT ![c] = [k \in 1 .. Len(d[c]) |->
                        IF k > at /\ k <= at + Len(data) THEN data[k - at] ELSE d[c][k]]]

\* The loop of do_io.  io is "read" or "write"; buffer is what is left to
\* write; got is what has been read.  fd->v, which nothing ever sets, is
\* followed at every turn.
RECURSIVE do_io_loop(_, _, _, _, _, _, _, _)
do_io_loop(st, fd, nbytes, block, this_cluster, buffer, got, io) ==
    LET h == st.heap[fd] IN
    IF nbytes <= 0 \/ this_cluster = 0 \/ st.end # "no"
    THEN [st |-> update_current_cluster(st, fd), ret |-> Len(got), data |-> got]
    ELSE LET c == h.clusters[this_cluster]
             at == h.offset % CLUSTER_SIZE
             st1 == [st EXCEPT !.ub = TRUE, !.heap[fd].offset = h.offset + block]
             next == IF this_cluster < Len(h.clusters) THEN this_cluster + 1 ELSE 0
         IN  IF c \notin DOMAIN st.disk
             THEN [st |-> [st EXCEPT !.ub = TRUE, !.end = "dead"], ret |-> Len(got), data |-> got]
             ELSE do_io_loop(
                    IF io = "write"
                    THEN [st1 EXCEPT !.disk = WriteUnits(st.disk, c, at, SubSeq(buffer, 1, block))]
                    ELSE st1,
                    fd, nbytes - block, Min(nbytes - block, CLUSTER_SIZE), next,
                    SubSeq(buffer, block + 1, Len(buffer)),
                    got \o (IF io = "read" THEN ReadUnits(st.disk, c, at, block)
                            ELSE SubSeq(buffer, 1, block)),
                    io)

do_io(st, fd, nbytes, buffer, io) ==
    LET h == st.heap[fd]
        room == CLUSTER_SIZE - (h.offset % CLUSTER_SIZE)
    IN  do_io_loop(Touch(st, fd), fd, nbytes, Min(nbytes, room), h.current_cluster,
                   buffer, <<>>, io)

fat_read(st, fd, nbytes) == do_io(st, fd, nbytes, <<>>, "read")

\* new_cluster on the state of the daemon.
new_cluster_st(st, near) ==
    Then(new_cluster(st.free_map, map_tail, st.fat, near), LAMBDA r :
        IF r.how # "ok"
        THEN [st |-> [st EXCEPT !.end = "dead"], chosen |-> r.chosen]
        ELSE [st |-> [st EXCEPT !.fat = r.fat, !.free_map = r.map,
                                !.alloc = st.alloc + 1, !.avail = st.avail - 1],
              chosen |-> r.chosen])

release_cluster_st(st, c) ==
    Then(release_cluster(st.free_map, map_tail, st.fat, c), LAMBDA r :
        IF r.how # "ok"
        THEN [st EXCEPT !.end = "dead"]
        ELSE [st EXCEPT !.fat = r.fat, !.free_map = r.map,
                        !.alloc = st.alloc - 1, !.avail = st.avail + 1])

\* release_cluster on each cluster of a list from position k on
RECURSIVE release_clusters(_, _, _)
release_clusters(st, clusters, k) ==
    IF k > Len(clusters) \/ st.end # "no" THEN st
    ELSE release_clusters(release_cluster_st(st, clusters[k]), clusters, k + 1)

\* alloc_clusters is called by fat_write and defined in no file of the
\* sources: each of the count clusters is new_cluster (tail), appended to
\* the handle's list.
RECURSIVE alloc_clusters(_, _, _)
alloc_clusters(st, fd, count) ==
    LET cl == st.heap[fd].clusters IN
    IF count <= 0 \/ st.end # "no" THEN st
    ELSE IF Len(cl) = 0 THEN [st EXCEPT !.ub = TRUE, !.end = "dead"]
    ELSE Then(new_cluster_st(st, cl[Len(cl)]), LAMBDA n :
            IF n.st.end # "no" THEN n.st
            ELSE alloc_clusters([n.st EXCEPT !.heap[fd].clusters = Append(cl, n.chosen)],
                                fd, count - 1))

\* fat_alloc_node is called by fat_create and defined in no file of the
\* sources: the cluster in the middle of the largest free region, which is
\* shrunk or split, is marked as the end of a chain.
fat_alloc_node(st) ==
    IF map_tail = "wild" \/ Len(st.free_map) = 0
    THEN [st |-> [st EXCEPT !.end = "dead"], chosen |-> 0]
    ELSE Then(traverse_map(st.free_map, "largest", 0, 1, 1), LAMBDA reg :
            LET map == st.free_map
                r == map[reg]
                mid == r.start + (r.length \div 2)
                left == Region(r.start, mid - r.start)
                right == Region(mid + 1, (r.start + r.length) - (mid + 1))
                pieces == (IF left.length > 0 THEN <<left>> ELSE <<>>)
                            \o (IF right.length > 0 THEN <<right>> ELSE <<>>)
            IN  IF mid \notin DOMAIN st.fat
                THEN [st |-> [st EXCEPT !.end = "dead"], chosen |-> mid]
                ELSE [st |-> [st EXCEPT !.free_map = SubSeq(map, 1, reg - 1) \o pieces
                                                       \o SubSeq(map, reg + 1, Len(map)),
                                        !.fat = put_fat_entry(st.fat, mid, END_CLUSTER_MARK),
                                        !.alloc = st.alloc + 1, !.avail = st.avail - 1],
                      chosen |-> mid])

fat_write(st, fd, buffer) ==
    LET h == st.heap[fd]
        nbytes == Len(buffer)
        nr_clusters == count_clusters(h.size)
        st0 == Touch(st, fd)
        st1 == IF h.offset + nbytes >= nr_clusters * CLUSTER_SIZE
               THEN alloc_clusters(st0, fd,
                        count_clusters((h.offset + nbytes) - (nr_clusters * CLUSTER_SIZE)))
               ELSE st0
    IN  do_io(st1, fd, nbytes, buffer, "write")

\* The loop of fat_open_fd that reads the chain through get_fat_entry.  A
\* chain of more links than the table has cells never ends.
RECURSIVE read_chain(_, _, _, _)
read_chain(st, this_cluster, clusters, fuel) ==
    IF IS_LAST_CLUSTER(this_cluster) THEN [st |-> st, clusters |-> clusters]
    ELSE IF fuel = 0 THEN [st |-> [st EXCEPT !.end = "spin"], clusters |-> clusters]
    ELSE IF this_cluster \notin DOMAIN st.fat
    THEN [st |-> [st EXCEPT !.end = "dead"], clusters |-> clusters]
    ELSE Then(get_fat_entry(st.cache, st.fat, volume_info, this_cluster, "stale"),
              LAMBDA g :
                IF g.how # "ok"
                THEN [st |-> [st EXCEPT !.end = g.how], clusters |-> clusters]
                ELSE read_chain([st EXCEPT !.cache = g.cache], g.val,
                                Append(clusters, this_cluster), fuel - 1))

NewHandle(hp) == CHOOSE fd \in HandleIds :
                    /\ hp[fd].state = "unused"
                    /\ \A o \in HandleIds : hp[o].state = "unused" => fd <= o

\* inode and flags are written by nothing: j says what the new structure
\* holds there.
fat_open_fd(st, entry, inode, index, j) ==
    Then(ilist_lookup_file(st, "files_list", DIR_CLUSTER_START(entry)), LAMBDA lk :
        IF lk.found THEN [st |-> lk.st, fd |-> lk.fd, ret |-> 0]
        ELSE Then(read_chain(lk.st, DIR_CLUSTER_START(entry), <<>>, NrCells + 1), LAMBDA w :
                LET fd == NewHandle(st.heap)
                    kind == IF HasAttr(entry.attributes, ATTR_DIRECTORY) THEN "dir"
                            ELSE "file"
                    new == [state |-> "live", name |-> entry.fname,
                            inode |-> IF j[kind] = "start" THEN DIR_CLUSTER_START(entry)
                                      ELSE 0,
                            clusters |-> w.clusters, size |-> entry.size, offset |-> 0,
                            current_cluster |-> IF Len(w.clusters) > 0 THEN 1 ELSE 0,
                            attributes |-> entry.attributes, directory_inode |-> inode,
                            dir_entry_index |-> index, flags |-> j.flags]
                IN  [st |-> ilist_add([w.st EXCEPT !.heap[fd] = new], "files_list", fd),
                     fd |-> fd, ret |-> 0]))

release_parent_dir(st, inode) == ilist_unlink(st, "active_dirs", inode)

\* A close that gives back the clusters of a file marked for deletion
\* whether or not other references remain.
fat_close_releasing(st, fd) ==
    Then(IF st.heap[fd].directory_inode # 0
         THEN release_parent_dir(Touch(st, fd), st.heap[fd].directory_inode)
         ELSE Touch(st, fd),
         LAMBDA st1 :
            Then(ilist_unlink(Touch(st1, fd), "files_list", st1.heap[fd].inode),
                 LAMBDA st2 :
                    IF FL_DELETE_ON_CLOSE \in st.heap[fd].flags
                    THEN release_clusters(st2, st.heap[fd].clusters, 1)
                    ELSE st2))

fat_close(st, fd) ==
    Then(IF st.heap[fd].directory_inode # 0
         THEN release_parent_dir(Touch(st, fd), st.heap[fd].directory_inode)
         ELSE Touch(st, fd),
         LAMBDA st1 : ilist_unlink(Touch(st1, fd), "files_list", st1.heap[fd].inode))

(***************************************************************************)
(* directory.c.  A path is the sequence of its names: the string cursor of *)
(* fat_lookup_dir (the empty name in front of the leading separator, the   *)
(* byte behind the copy whose value ends the loop) is not followed.  The   *)
(* path of the root directory has no name; the turn of the loop made for   *)
(* it opens the root and searches for nothing.  In search_directory the    *)
(* entry read is the one compared (the text compares dir->fname), and in   *)
(* get_directory_size the test is the assignment it is written as, which   *)
(* is never true.                                                          *)
(***************************************************************************)
root_direntry(j) == Slot("/", ATTR_DIRECTORY, volume_info.root_cluster, j.size)

is_directory(st, file) == HasAttr(st.heap[file].attributes, ATTR_DIRECTORY)

RECURSIVE search_loop(_, _, _, _)
search_loop(st, dir, name, index) ==
    Then(fat_read(st, dir, 1), LAMBDA r :
        IF r.ret = 0 THEN [st |-> r.st, found |-> FALSE, entry |-> NoSlot, index |-> index]
        ELSE IF r.data[1].fname = name
        THEN [st |-> r.st, found |-> TRUE, entry |-> r.data[1], index |-> index]
        ELSE search_loop(r.st, dir, name, index + 1))

search_directory(st, dir, name) ==
    search_loop(fat_seek(st, dir, 0, "SEEK_SET").st, dir, name, 0)

RECURSIVE size_loop(_, _, _)
size_loop(st, dirfd, entry_count) ==
    Then(fat_read(st, dirfd, 1), LAMBDA r :
        IF r.ret > 0 THEN size_loop(r.st, dirfd, entry_count + 1)
        ELSE [st |-> r.st, ret |-> entry_count])

get_directory_size(st, dirfd) ==
    size_loop(fat_seek(st, dirfd, 0, "SEEK_SET").st, dirfd, 0)

RECURSIVE lookup_loop(_, _, _, _, _)
lookup_loop(st, buffer, path, k, j) ==
    Then(fat_open_fd(st, buffer, 0, 0, j), LAMBDA o :
        LET parent_fd == o.fd
            none == [st |-> o.st, ret |-> 0, buffer |-> buffer, parent |-> parent_fd,
                     index |-> 0]
        IN  IF o.st.end # "no" THEN none
            ELSE IF ~is_directory(o.st, parent_fd)
            THEN [none EXCEPT !.st = fat_close(o.st, parent_fd), !.ret = 0 - ENOTDIR]
            ELSE IF k > Len(path) THEN none
            ELSE Then(search_directory(o.st, parent_fd, path[k]), LAMBDA s :
                    IF ~s.found
                    THEN [none EXCEPT !.st = fat_close(s.st, parent_fd),
                                      !.ret = 0 - ENOENT]
                    ELSE IF k < Len(path)
                    THEN lookup_loop(fat_close(s.st, parent_fd), s.entry, path, k + 1, j)
                    ELSE [st |-> s.st, ret |-> 0, buffer |-> s.entry,
                          parent |-> parent_fd, index |-> s.index]))

fat_lookup_dir(st, path, j) == lookup_loop(st, root_direntry(j), path, 1, j)

\* The buffer of the caller is not written when the directory is not in
\* the list or nothing is read: it keeps what j says it held.
get_directory_entry(st, inode, index, j) ==
    Then(ilist_lookup_file(st, "active_dirs", inode), LAMBDA lk :
        IF ~lk.found THEN [st |-> lk.st, buffer |-> j.slot]
        ELSE Then(fat_read(fat_seek(lk.st, lk.fd, index, "SEEK_SET").st, lk.fd, 1),
                  LAMBDA r : [st |-> ilist_unlink(r.st, "active_dirs", inode),
                              buffer |-> IF r.ret > 0 THEN r.data[1] ELSE j.slot]))

put_directory_entry(st, buffer, inode, index) ==
    Then(ilist_lookup_file(st, "active_dirs", inode), LAMBDA lk :
        IF ~lk.found THEN lk.st
        ELSE ilist_unlink(
               fat_write(fat_seek(lk.st, lk.fd, index, "SEEK_SET").st, lk.fd,
                         <<buffer>>).st,
               "active_dirs", inode))

add_parent_dir(st, parent_fd) == ilist_add(st, "active_dirs", parent_fd)

dir_delete_entry(st, dirfd, index, j) ==
    Then(get_directory_size(st, dirfd), LAMBDA n :
        Then(fat_read(fat_seek(n.st, dirfd, n.ret - 1, "SEEK_SET").st, dirfd, 1), LAMBDA r :
            LET last_index == n.ret
                last == IF r.ret > 0 THEN r.data[1] ELSE j.slot
            IN  Then(fat_write(fat_seek(r.st, dirfd, index, "SEEK_SET").st, dirfd,
                               <<last>>),
                     LAMBDA w : fat_write(fat_seek(w.st, dirfd, last_index - 1,
                                                   "SEEK_SET").st,
                                          dirfd, <<[last EXCEPT !.fname = ""]>>).st)))

dir_write_entry(st, dirfd, entry) ==
    Then(get_directory_size(st, dirfd), LAMBDA n :
        fat_write(fat_seek(n.st, dirfd, n.ret, "SEEK_SET").st, dirfd, <<entry>>).st)

(***************************************************************************)
(* dostimes.c: the slot of the file is read and written back.  The time    *)
(* stamps themselves are not part of the model's slot.                     *)
(***************************************************************************)
update_time(st, fd, j) ==
    Then(get_directory_entry(Touch(st, fd), st.heap[fd].directory_inode,
                             st.heap[fd].dir_entry_index, j),
         LAMBDA g : put_directory_entry(g.st, g.buffer, st.heap[fd].directory_inode,
                                        st.heap[fd].dir_entry_index))

(***************************************************************************)
(* fileio.c: fat_open                                                      *)
(***************************************************************************)
fat_open(st, path, j) ==
    Then(fat_lookup_dir(st, path, j), LAMBDA l :
        IF l.ret # 0 \/ l.st.end # "no" THEN [st |-> l.st, ret |-> l.ret, fd |-> 0]
        ELSE Then(fat_open_fd(Touch(l.st, l.parent), l.buffer, l.st.heap[l.parent].inode,
                              l.index, j),
                  LAMBDA o : [st |-> add_parent_dir(o.st, l.parent), ret |-> 0,
                              fd |-> o.fd]))

(***************************************************************************)
(* create.c                                                                *)
(***************************************************************************)
ENOTEMPTY == 39

\* a call that did not return 0, or did not return
Failed(r) == r.ret # 0 \/ r.st.end # "no"

\* the parent directory and the file name decompose_path cuts a path into
Parent(path) == SubSeq(path, 1, Len(path) - 1)
File(path) == path[Len(path)]

fat_create(st, path, attributes, j) ==
    Then(fat_open(st, Parent(path), j), LAMBDA o :
        IF Failed(o) THEN [st |-> o.st, ret |-> o.ret]
        ELSE Then(fat_alloc_node(o.st), LAMBDA a :
                [st |-> fat_close(dir_write_entry(a.st, o.fd,
                                     Slot(File(path), attributes, a.chosen, 0)),
                                  o.fd),
                 ret |-> 0]))

\* When the lookup of oldpath fails, oldfd holds what j says: it was never
\* written, and it is closed when it is not NULL.
fat_rename(st, oldpath, newpath, j) ==
    Then(fat_open(st, Parent(newpath), j), LAMBDA n :
        IF Failed(n) THEN [st |-> n.st, ret |-> n.ret]
        ELSE Then(fat_lookup_dir(n.st, oldpath, j), LAMBDA l :
                IF Failed(l)
                THEN [st |-> [fat_close(l.st, n.fd) EXCEPT !.ub = TRUE], ret |-> l.ret]
                ELSE [st |-> fat_close(
                               fat_close(
                                 dir_write_entry(
                                   dir_delete_entry(l.st, l.parent, l.index, j),
                                   n.fd, [l.buffer EXCEPT !.fname = File(newpath)]),
                                 l.parent),
                               n.fd),
                      ret |-> 0]))

is_reserved_name(name) == name \in {".", "..", ""}

RECURSIVE fat_rmdir(_, _)
fat_rmdir(st, dirfd) ==
    Then(fat_read(st, dirfd, 1), LAMBDA r :
        IF r.ret = 0
        THEN [st |-> fat_close([r.st EXCEPT
                                  !.heap[dirfd].flags = @ \cup {FL_DELETE_ON_CLOSE}],
                               dirfd),
              ret |-> 0]
        ELSE IF ~is_reserved_name(r.data[1].fname)
        THEN [st |-> fat_close(r.st, dirfd), ret |-> 0 - ENOTEMPTY]
        ELSE fat_rmdir(r.st, dirfd))

fat_unlink(st, filename, j) ==
    Then(fat_open(st, filename, j), LAMBDA o :
        IF Failed(o) THEN [st |-> o.st, ret |-> o.ret]
        ELSE IF HasAttr(o.st.heap[o.fd].attributes, ATTR_READ_ONLY)
        THEN [st |-> fat_close(o.st, o.fd), ret |-> 0 - EACCES]
        ELSE IF HasAttr(o.st.heap[o.fd].attributes, ATTR_DIRECTORY)
        THEN fat_rmdir(o.st, o.fd)
        ELSE [st |-> fat_close([o.st EXCEPT
                                  !.heap[o.fd].flags = @ \cup {FL_DELETE_ON_CLOSE}],
                               o.fd),
              ret |-> 0])

\* fat_release has no caller in the sources.
fat_release(st, fd, j) ==
    Then(ilist_lookup_file(st, "active_dirs", st.heap[fd].directory_inode), LAMBDA lk :
        release_clusters(IF lk.found
                         THEN dir_delete_entry(lk.st, lk.fd, st.heap[fd].dir_entry_index, j)
                         ELSE [lk.st EXCEPT !.end = "dead"],
                         st.heap[fd].clusters, 1))

(***************************************************************************)
(* mfatic-fuse.c                                                           *)
(***************************************************************************)
RECURSIVE write_zeros(_, _, _)
write_zeros(st, fd, count) ==
    IF count <= 0 \/ st.end # "no" THEN st
    ELSE write_zeros(fat_write(st, fd, <<NoSlot>>).st, fd, count - 1)

\* The handle is not closed.  The list entries of the clusters released
\* stay linked behind the current cluster.
mfatic_truncate(st, path, length, j) ==
    Then(fat_open(st, path, j), LAMBDA o :
        IF Failed(o) THEN [st |-> o.st, ret |-> o.ret]
        ELSE Then(fat_seek([o.st EXCEPT !.heap[o.fd].size = length], o.fd, 0,
                           "SEEK_END").st,
                  LAMBDA s :
                    LET fd == o.fd
                        oldsize == o.st.heap[fd].size
                        h == s.heap[fd]
                    IN  IF oldsize > length
                        THEN IF h.current_cluster = 0
                             THEN [st |-> [s EXCEPT !.ub = TRUE, !.end = "dead"], ret |-> 0]
                             ELSE IF h.clusters[h.current_cluster] \notin DOMAIN s.fat
                             THEN [st |-> [s EXCEPT !.end = "dead"], ret |-> 0]
                             ELSE [st |-> release_clusters(
                                            [s EXCEPT !.fat = put_fat_entry(s.fat,
                                                                h.clusters[h.current_cluster],
                                                                END_CLUSTER_MARK)],
                                            h.clusters, h.current_cluster + 1),
                                   ret |-> 0]
                        ELSE IF oldsize < length
                        THEN [st |-> write_zeros(s, fd, length - oldsize), ret |-> 0]
                        ELSE [st |-> s, ret |-> 0]))

mfatic_utimens(st, path, j) ==
    Then(fat_open(st, path, j), LAMBDA o :
        IF Failed(o) THEN [st |-> o.st, ret |-> o.ret]
        ELSE IF HasAttr(o.st.heap[o.fd].attributes, ATTR_READ_ONLY)
        THEN [st |-> fat_close(o.st, o.fd), ret |-> 0 - EACCES]
        ELSE Then(update_time(o.st, o.fd, j), LAMBDA a :
                [st |-> fat_close(update_time(a, o.fd, j), o.fd), ret |-> 0]))

mfatic_read(st, rf, nbytes, offset, j) ==
    Then(fat_seek(update_time(st, rf, j), rf, offset, "SEEK_SET"), LAMBDA s :
        IF s.ret # offset THEN [st |-> s.st, ret |-> EOF, data |-> <<>>]
        ELSE fat_read(s.st, rf, nbytes))

mfatic_write(st, wf, buf, offset, j) ==
    Then(fat_seek(update_time(st, wf, j), wf, offset, "SEEK_SET"), LAMBDA s :
        IF s.ret # offset THEN [st |-> s.st, ret |-> EOF, data |-> <<>>]
        ELSE fat_write(s.st, wf, buf))

unpack_attributes(entry) ==
    [st_ino |-> DIR_CLUSTER_START(entry), st_size |-> entry.size,
     st_blocks |-> count_clusters(entry.size)]

mfatic_getattr(st, path, j) ==
    Then(fat_lookup_dir(st, path, j), LAMBDA l :
        IF Failed(l)
        THEN [st |-> l.st, ret |-> l.ret, attrs |-> unpack_attributes(NoSlot)]
        ELSE [st |-> fat_close(l.st, l.parent), ret |-> 0,
              attrs |-> unpack_attributes(l.buffer)])

\* The loop of mfatic_readdir.  entry is the buffer of the caller, which a
\* read of nothing leaves as it was; names are the names the filler has been
\* given; the filler returns 1 at its call number full, and at no call when
\* full is 0.  The loop has no other way out: with a filler that never
\* returns 1 the call does not return.
RECURSIVE readdir_loop(_, _, _, _, _, _)
readdir_loop(st, dirfd, entry, names, full, fuel) ==
    Then(fat_read(st, dirfd, 1), LAMBDA r :
        LET read == IF r.ret > 0 THEN r.data[1] ELSE entry
            given == Append(names, read.fname)
        IN  IF r.st.end # "no" THEN [st |-> r.st, ret |-> 0, names |-> names]
            ELSE IF Len(given) = full THEN [st |-> r.st, ret |-> 0, names |-> given]
            ELSE IF fuel = 0
            THEN [st |-> [r.st EXCEPT !.end = "spin"], ret |-> 0, names |-> given]
            ELSE readdir_loop(r.st, dirfd, read, given, full, fuel - 1))

mfatic_readdir(st, dirfd, offset, full, j) ==
    Then(fat_seek(st, dirfd, offset, "SEEK_SET"), LAMBDA s :
        IF s.ret # offset THEN [st |-> s.st, ret |-> EOF, names |-> <<>>]
        ELSE readdir_loop(s.st, dirfd, j.slot, <<>>, full, NrCells))

(***************************************************************************)
(* The mounted daemon: a volume is mounted (mfatic_mount), then FUSE calls *)
(* the operations in any order, one at a time.  A call that made a step    *)
(* with no defined behaviour either ends the daemon or goes on with what   *)
(* memory holds.  The flags of a handle are the bits the daemon has set.   *)
(***************************************************************************)
FsGeometry == [nr_entries |-> 8, fat_sectors |-> 1, cluster_size |-> 2, root_cluster |-> 2]

Names == {"A", "B"}
Paths == {<<n>> : n \in Names}
\* the paths that are opened: those, the file C of the directory B, and
\* the root directory
OpenPaths == Paths \cup {<<"B", "C">>, <<>>}

\* a unit of file data
Unit(b) == Slot(b, 0, 0, 0)

\* what a directory entry built by root_direntry may hold as its size
RootSizes == {0, 64}
\* what a directory entry buffer that was never filled holds
JunkSlots == {Slot("~", ATTR_DIRECTORY, 1, 1)}
\* the inode field of a new fat_file_t holds the starting cluster, or zero
InodeJunk == {"start", "zero"}

Junk == [dir : InodeJunk, file : InodeJunk, size : RootSizes, slot : JunkSlots,
         flags : {{}}]

\* Volumes as a formatter and another driver leave them: the root directory
\* in cluster 2; files A and B; the free clusters behind them.  On the
\* third A is read-only and B is a directory that holds the file C; on the
\* last the root directory has a second cluster, 6, whose slots are unused,
\* and the volume has no free cluster.
FsImages ==
    {[fat |-> [c \in 0 .. 7 |-> IF c = 0 THEN END_CLUSTER_MARK
                                ELSE IF c \in {1, 2, 3, 4, 5} THEN END_CLUSTER_MARK + 7
                                ELSE 0],
      disk |-> [c \in 2 .. 7 |-> IF c = 2 THEN <<Slot("A", ATTR_READ_ONLY, 3, 2),
                                                 Slot("B", ATTR_DIRECTORY, 4, 0)>>
                                 ELSE IF c = 3 THEN <<Unit("a"), Unit("b")>>
                                 ELSE IF c = 4 THEN <<Slot("C", 0, 5, 1), NoSlot>>
                                 ELSE IF c = 5 THEN <<Unit("d"), NoSlot>>
                                 ELSE <<NoSlot, NoSlot>>]],
     [fat |-> [c \in 0 .. 7 |-> IF c = 0 THEN END_CLUSTER_MARK
                                ELSE IF c \in {1, 2, 3} THEN END_CLUSTER_MARK + 7
                                ELSE 0],
      disk |-> [c \in 2 .. 7 |-> IF c = 2 THEN <<Slot("A", 0, 3, 2), NoSlot>>
                                 ELSE IF c = 3 THEN <<Unit("a"), Unit("b")>>
                                 ELSE <<NoSlot, NoSlot>>]],
     [fat |-> [c \in 0 .. 7 |-> IF c = 0 THEN END_CLUSTER_MARK
                                ELSE IF c \in {1, 2, 4, 5} THEN END_CLUSTER_MARK + 7
                                ELSE IF c = 3 THEN 4
                                ELSE 0],
      disk |-> [c \in 2 .. 7 |-> IF c = 2 THEN <<Slot("A", 0, 3, 3), Slot("B", 0, 5, 1)>>
                                 ELSE IF c = 3 THEN <<Unit("a"), Unit("b")>>
                                 ELSE IF c = 4 THEN <<Unit("c"), NoSlot>>
                                 ELSE IF c = 5 THEN <<Unit("d"), NoSlot>>
                                 ELSE <<NoSlot, NoSlot>>]],
     [fat |-> [c \in 0 .. 7 |-> IF c = 0 THEN END_CLUSTER_MARK
                                ELSE IF c = 2 THEN 6
                                ELSE END_CLUSTER_MARK + 7],
      disk |-> [c \in 2 .. 7 |-> IF c = 2 THEN <<Slot("A", 0, 3, 2), Slot("B", 0, 5, 1)>>
                                 ELSE IF c = 3 THEN <<Unit("a"), Unit("b")>>
                                 ELSE IF c = 5 THEN <<Unit("d"), NoSlot>>
                                 ELSE <<NoSlot, NoSlot>>]]}

FsInit ==
    \E img \in FsImages, g \in IndeterminateStart :
        LET st == init_clusters_map(img.fat, FsGeometry, g) IN
        /\ junk \in Junk
        /\ threads = Idle
        /\ boot = [pc |-> "mounted", fsinfo |-> FSINFO_MAGIC]
        /\ volume_info = FsGeometry
        /\ fat = img.fat
        /\ free_map = st.list
        /\ map_tail = "null"
        /\ nr_allocated_clusters = st.alloc
        /\ nr_available_clusters = st.avail
        /\ cache = table_init
        /\ fault = "no"
        /\ op = Op("mount", <<>>, 0)
        /\ nops = 0
        /\ disk = img.disk
        /\ heap = [fd \in HandleIds |-> NoHandle]
        /\ files_list = <<>>
        /\ active_dirs = <<>>
        /\ fhs = <<>>

St == [fat |-> fat, cache |-> cache, free_map |-> free_map,
       alloc |-> nr_allocated_clusters, avail |-> nr_available_clusters,
       disk |-> disk, heap |-> heap, files_list |-> files_list,
       active_dirs |-> active_dirs, ub |-> FALSE, end |-> "no"]

\* The chain that starts at cluster c in the table f: the clusters a walk
\* through the links visits before the end mark.
RECURSIVE ChainFrom(_, _, _)
ChainFrom(f, c, fuel) ==
    IF fuel = 0 \/ c \notin DOMAIN f \/ IS_LAST_CLUSTER(c) THEN <<>>
    ELSE <<c>> \o ChainFrom(f, f[c], fuel - 1)

Range(s) == {s[i] : i \in DOMAIN s}

\* The slots of the directory that starts at cluster c0.
DirSlots(c0) == {<<c, u>> : c \in Range(ChainFrom(fat, c0, NrCells)) \cap DOMAIN disk,
                            u \in 1 .. volume_info.cluster_size}

\* The slots of the root directory on the device, and those in use.
RootChain == ChainFrom(fat, volume_info.root_cluster, NrCells)
RootSlots == DirSlots(volume_info.root_cluster)
UsedSlots == {p \in RootSlots : disk[p[1]][p[2]].fname # ""}

\* The slots in use in the directories that the root directory lists.
UsedSubSlots ==
    {p \in UNION {DirSlots(disk[d[1]][d[2]].cluster) :
                    d \in {q \in UsedSlots :
                             HasAttr(disk[q[1]][q[2]].attributes, ATTR_DIRECTORY)}} :
        disk[p[1]][p[2]].fname # ""}

\* The kernel looks a name up before it asks for it to be made: mknod is
\* called for names the directory does not list.
Listed(name) == \E p \in UsedSlots : disk[p[1]][p[2]].fname = name

\* a request may be served: the daemon runs and safe_malloc has memory
Serving ==
    /\ fault = "no"
    /\ nops < MaxFsOps
    /\ Cardinality({fd \in HandleIds : heap[fd].state = "unused"}) >= 3

Traps(st) == IF st.ub THEN BOOLEAN ELSE {FALSE}

\* The state a call leaves.  With trap the daemon ends at the step that
\* has no defined behaviour.
Return(st, trap, name, args, ret, handles) ==
    /\ trap \in Traps(st)
    /\ nops' = nops + 1
    /\ op' = Op(name, args, ret)
    /\ UNCHANGED <<volume_info, map_tail, junk, threads, boot>>
    /\ IF st.end # "no" \/ (st.ub /\ trap)
       THEN /\ fault' = IF st.end # "no" THEN st.end ELSE "dead"
            /\ UNCHANGED <<fat, cache, free_map, nr_allocated_clusters,
                           nr_available_clusters, fsvars>>
       ELSE /\ fault' = "no"
            /\ fat' = st.fat
            /\ cache' = st.cache
            /\ free_map' = st.free_map
            /\ nr_allocated_clusters' = st.alloc
            /\ nr_available_clusters' = st.avail
            /\ disk' = st.disk
            /\ heap' = st.heap
            /\ files_list' = st.files_list
            /\ active_dirs' = st.active_dirs
            /\ fhs' = handles

MfaticOpen(path) ==
    /\ Serving
    /\ \E trap \in BOOLEAN :
          Then(fat_open(St, path, junk), LAMBDA r :
              Return(r.st, trap, "open", <<path>>, r.ret,
                     IF r.ret = 0 THEN Append(fhs, r.fd) ELSE fhs))

MfaticRelease(k) ==
    /\ Serving
    /\ k \in 1 .. Len(fhs)
    /\ \E trap \in BOOLEAN :
          Return(fat_close(St, fhs[k]), trap, "release", <<fhs[k]>>, 0, RemoveAt(fhs, k))

MfaticRead(k, nbytes, offset) ==
    /\ Serving
    /\ k \in 1 .. Len(fhs)
    /\ \E trap \in BOOLEAN :
          Then(mfatic_read(St, fhs[k], nbytes, offset, junk), LAMBDA r :
              Return(r.st, trap, "read", <<fhs[k], nbytes, offset>>,
                     [ret |-> r.ret, data |-> r.data], fhs))

MfaticWrite(k, buf, offset) ==
    /\ Serving
    /\ k \in 1 .. Len(fhs)
    /\ \E trap \in BOOLEAN :
          Then(mfatic_write(St, fhs[k], buf, offset, junk), LAMBDA r :
              Return(r.st, trap, "write", <<fhs[k], buf, offset>>, r.ret, fhs))

MfaticGetattr(path) ==
    /\ Serving
    /\ \E trap \in BOOLEAN :
          Then(mfatic_getattr(St, path, junk), LAMBDA r :
              Return(r.st, trap, "getattr", <<path>>,
                     [ret |-> r.ret, attrs |-> r.attrs], fhs))

MfaticMknod(path) ==
    /\ Serving
    /\ ~Listed(File(path))
    /\ \E trap \in BOOLEAN :
          Then(fat_create(St, path, 0, junk), LAMBDA r :
              Return(r.st, trap, "mknod", <<path>>, r.ret, fhs))

MfaticUnlink(path) ==
    /\ Serving
    /\ \E trap \in BOOLEAN :
          Then(fat_unlink(St, path, junk), LAMBDA r :
              Return(r.st, trap, "unlink", <<path>>, r.ret, fhs))

MfaticRename(old, new) ==
    /\ Serving
    /\ \E trap \in BOOLEAN :
          Then(fat_rename(St, old, new, junk), LAMBDA r :
              Return(r.st, trap, "rename", <<old, new>>, r.ret, fhs))

MfaticTruncate(path, length) ==
    /\ Serving
    /\ \E trap \in BOOLEAN :
          Then(mfatic_truncate(St, path, length, junk), LAMBDA r :
              Return(r.st, trap, "truncate", <<path, length>>, r.ret, fhs))

MfaticUtimens(path) ==
    /\ Serving
    /\ \E trap \in BOOLEAN :
          Then(mfatic_utimens(St, path, junk), LAMBDA r :
              Return(r.st, trap, "utimens", <<path>>, r.ret, fhs))

\* FUSE calls readdir with a handle that opendir returned.  full is the
\* call at which the filler of the client reports its buffer full; 0 is a
\* buffer that takes the whole directory.
MfaticReaddir(k, offset, full) ==
    /\ Serving
    /\ k \in 1 .. Len(fhs)
    /\ is_directory(St, fhs[k])
    /\ \E trap \in BOOLEAN :
          Then(mfatic_readdir(St, fhs[k], offset, full, junk), LAMBDA r :
              Return(r.st, trap, "readdir", <<fhs[k], offset, full>>,
                     [ret |-> r.ret, names |-> r.names], fhs))

\* the data and the lengths the clients use
Buffers == {<<Unit("x")>>, <<Unit("H"), Unit("I"), Unit("!")>>}
Lengths == {0, 1, 4}

FsNext ==
    \/ \E path \in OpenPaths : MfaticOpen(path)
    \/ \E k \in 1 .. MaxFsOps : MfaticRelease(k)
    \/ \E k \in 1 .. MaxFsOps, nbytes \in {1, 3}, offset \in {0, 2} :
          MfaticRead(k, nbytes, offset)
    \/ \E k \in 1 .. MaxFsOps, buf \in Buffers, offset \in {0, 2} :
          MfaticWrite(k, buf, offset)
    \/ \E path \in Paths : MfaticGetattr(path)
    \/ \E path \in Paths : MfaticMknod(path)
    \/ \E path \in Paths : MfaticUnlink(path)
    \/ \E old \in Paths : \E new \in Paths \ {old} : MfaticRename(old, new)
    \/ \E path \in Paths, length \in Lengths : MfaticTruncate(path, length)
    \/ \E path \in Paths : MfaticUtimens(path)
    \/ \E k \in 1 .. MaxFsOps, offset \in {0, 1}, full \in {0, 2} :
          MfaticReaddir(k, offset, full)

SpecFS == FsInit /\ [][FsNext]_vars

(***************************************************************************)
(* The start of the program.  main calls init_volume, which reads the      *)
(* three magics of the FSInfo sector into the uint32_t fields of           *)
(* fat_fsinfo_t and calls verify_magic on each; then fuse_main, which      *)
(* calls mfatic_mount, and after that the operations.  verify_magic takes  *)
(* two pointers to bytes and is handed the values themselves: it reads the *)
(* memory at the address a value spells.  wild is what such a read does:   *)
(* it traps, or it finds bytes there that are the same on both sides, or   *)
(* that differ.  Two equal values are one address, and the same bytes.     *)
(***************************************************************************)
verify_magic(str1, str2, wild) ==
    IF wild = "trap" THEN "trap"
    ELSE IF str1 = str2 \/ wild = "same" THEN "true"
    ELSE "false"

\* The three calls under &&: a call is made when those before it were true.
\* The result is the pc main goes on with.
init_volume(fsinfo, wild) ==
    LET v(k) == verify_magic(FSINFO_MAGIC[k], fsinfo[k], wild[k])
        first == IF v(1) # "true" THEN v(1) ELSE IF v(2) # "true" THEN v(2) ELSE v(3)
    IN  IF first = "true" THEN "fuse_main"
        ELSE IF first = "false" THEN "exit"
        ELSE "trap"

\* The device holds in each field the magic, or the word after it; the
\* last field may hold 0.
MountInit ==
    \E img \in FsImages, m1 \in {0, 1}, m2 \in {0, 1}, m3 \in {0, 1, 0 - FSINFO_MAGIC[3]} :
        /\ boot = [pc |-> "init_volume",
                   fsinfo |-> <<FSINFO_MAGIC[1] + m1, FSINFO_MAGIC[2] + m2,
                                FSINFO_MAGIC[3] + m3>>]
        /\ junk \in Junk
        /\ threads = Idle
        /\ volume_info = FsGeometry
        /\ fat = img.fat
        /\ disk = img.disk
        /\ free_map = <<>>
        /\ map_tail = "null"
        /\ nr_allocated_clusters = 0
        /\ nr_available_clusters = 0
        /\ cache = [table_init EXCEPT !.available = 0]
        /\ fault = "no"
        /\ op = Op("main", <<>>, 0)
        /\ nops = 0
        /\ heap = <<>>
        /\ files_list = <<>>
        /\ active_dirs = <<>>
        /\ fhs = <<>>

InitVolume ==
    /\ fault = "no"
    /\ boot.pc = "init_volume"
    /\ \E wild \in [1 .. 3 -> {"trap", "same", "differs"}] :
          Then(init_volume(boot.fsinfo, wild), LAMBDA pc :
              /\ boot' = [boot EXCEPT !.pc = pc]
              /\ fault' = IF pc = "trap" THEN "dead" ELSE "no")
    /\ UNCHANGED <<volume_info, fat, free_map, map_tail, nr_allocated_clusters,
                   nr_available_clusters, cache, op, nops, fsvars, junk, threads>>

MfaticMount ==
    /\ fault = "no"
    /\ boot.pc = "fuse_main"
    /\ \E g \in IndeterminateStart :
          Then(init_clusters_map(fat, volume_info, g), LAMBDA st :
              /\ free_map' = st.list
              /\ nr_allocated_clusters' = st.alloc
              /\ nr_available_clusters' = st.avail)
    /\ cache' = table_init
    /\ heap' = [fd \in HandleIds |-> NoHandle]
    /\ boot' = [boot EXCEPT !.pc = "mounted"]
    /\ op' = Op("mount", <<>>, 0)
    /\ UNCHANGED <<volume_info, fat, map_tail, fault, nops, disk, files_list,
                   active_dirs, fhs, junk, threads>>

MfaticStatfs ==
    /\ fault = "no"
    /\ boot.pc = "mounted"
    /\ nops < MaxFsOps
    /\ nops' = nops + 1
    /\ op' = Op("statfs", <<>>, [f_bsize |-> CLUSTER_SIZE,
                                 f_blocks |-> used_clusters + free_clusters,
                                 f_bfree |-> free_clusters])
    /\ UNCHANGED <<volume_info, fat, free_map, map_tail, nr_allocated_clusters,
                   nr_available_clusters, cache, fault, fsvars, junk, threads, boot>>

MountNext ==
    \/ InitVolume
    \/ MfaticMount
    \/ MfaticStatfs

SpecMount == MountInit /\ [][MountNext]_vars

(***************************************************************************)
(* Properties of mount.                                                    *)
(***************************************************************************)
\* C27: mount succeeds only when all three FSInfo magic values equal their
\* reference constants; when any one of them differs, mount fails with
\* corrupt-volume, no component is initialised and no operation is ever
\* serviced on that volume.
C27_MountNeedsMagics ==
    boot.fsinfo # FSINFO_MAGIC =>
        /\ boot.pc \in {"init_volume", "exit"}
        /\ fault = "no"
        /\ free_map = <<>>
        /\ heap = <<>>
        /\ nops = 0

(***************************************************************************)
(* Properties of the volume.                                               *)
(***************************************************************************)
\* the files and directories whose chain holds cluster c
Owners(c) ==
    Cardinality({p \in UsedSlots :
                   c \in Range(ChainFrom(fat, disk[p[1]][p[2]].cluster, NrCells))})
        + Cardinality({p \in UsedSubSlots :
                         c \in Range(ChainFrom(fat, disk[p[1]][p[2]].cluster, NrCells))})
        + (IF c \in Range(RootChain) THEN 1 ELSE 0)

\* C1: in every state reached after mount by create, write, truncate,
\* unlink, rename and close, every cluster c of 2 .. nr_clusters - 1 is in
\* exactly one condition: its FAT cell is free, or it lies in the chain of
\* exactly one file or directory, or it is marked bad.
C1_ClustersPartitioned ==
    fault = "no" =>
        \A c \in 2 .. (NrCells - 1) :
            \/ IS_FREE_CLUSTER(fat[c]) /\ Owners(c) = 0
            \/ IS_BAD_CLUSTER(fat[c]) /\ Owners(c) = 0
            \/ /\ ~IS_FREE_CLUSTER(fat[c])
               /\ ~IS_BAD_CLUSTER(fat[c])
               /\ Owners(c) = 1

(***************************************************************************)
(* Properties of the handle table.                                         *)
(***************************************************************************)
\* the starting cluster of the file a handle was opened for
HandleStart(fd) == IF heap[fd].clusters = <<>> THEN 0 ELSE heap[fd].clusters[1]

\* C6: the handle table holds at most one handle per starting cluster: an
\* open of a file or directory whose starting cluster has a handle in the
\* table takes that handle and makes no second one.
C6_OneHandlePerStartCluster ==
    fault = "no" =>
        \A p, q \in 1 .. Len(files_list) :
            p # q => HandleStart(files_list[p].file) # HandleStart(files_list[q].file)

\* the handles a call has released: their structure was freed by the call
Closed(fd) == heap[fd].state # "freed" /\ heap'[fd].state = "freed"

\* C7: when the last reference to an unlinked file (the flag
\* FL_DELETE_ON_CLOSE is set) is closed, every cluster of its chain is
\* released, free_clusters() grows by the number of its clusters, and its
\* slot leaves the parent directory.
C7_LastCloseReleasesClusters ==
    [][\A fd \in HandleIds :
          (fault' = "no" /\ Closed(fd) /\ FL_DELETE_ON_CLOSE \in heap'[fd].flags) =>
              /\ nr_available_clusters'
                    = nr_available_clusters + Len(heap'[fd].clusters)
              /\ \A k \in 1 .. Len(heap'[fd].clusters) :
                    IS_FREE_CLUSTER(fat'[heap'[fd].clusters[k]])
              /\ \A p \in UsedSlots' : disk'[p[1]][p[2]].fname # heap'[fd].name]_vars

\* the call made by the step is an unlink of a file that a client still
\* holds open, or the close of a handle that stays in the table
NotLastReference ==
    /\ nops' # nops
    /\ fault' = "no"
    /\ \/ /\ op'.name = "unlink"
          /\ op'.ret = 0
          /\ \E k \in 1 .. Len(fhs') :
                /\ heap'[fhs'[k]].state = "live"
                /\ heap'[fhs'[k]].name = File(op'.args[1])
       \/ /\ op'.name = "release"
          /\ heap[op'.args[1]].state = "live"
          /\ heap'[op'.args[1]].state = "live"

\* C8: an unlink of a file that another handle holds open, and a close of
\* a handle that is not the last one, release no cluster: the table and
\* free_clusters() are as before.
C8_NoReleaseWhileReferenced ==
    [][NotLastReference => fat' = fat /\ nr_available_clusters' = nr_available_clusters
                            /\ nr_allocated_clusters' = nr_allocated_clusters]_vars

\* An unlink has returned and a client still holds the file open.
C8_UnlinkedWhileOpen ==
    /\ fault = "no"
    /\ op.name = "unlink"
    /\ op.ret = 0
    /\ \E k \in 1 .. Len(fhs) :
          /\ heap[fhs[k]].state = "live"
          /\ heap[fhs[k]].name = File(op.args[1])
          /\ FL_DELETE_ON_CLOSE \in heap[fhs[k]].flags
          /\ heap[fhs[k]].clusters # <<>>

\* C9: an open of a path whose file has no handle, followed by the close of
\* the handle it returned, leaves the handle table and the table of active
\* directories as they were before the open.  Both tables are empty when
\* the volume is mounted: they are empty again after the first open and the
\* close of its handle.
C9_OpenCloseRestoresTables ==
    (fault = "no" /\ nops = 2 /\ op.name = "release" /\ fhs = <<>>) =>
        files_list = <<>> /\ active_dirs = <<>>

\* C10: after mknod of a new file, open, write of 3 bytes at offset 0,
\* close, open and read of 3 bytes at offset 0, the read returns the bytes
\* written, and getattr reports size 3 and the starting cluster as inode.
\* The open that follows the mknod is the first step of these that can
\* fail: it returns 0.
C10_CreatedFileOpens ==
    [][(/\ fault = "no"
        /\ op.name = "mknod"
        /\ op.ret = 0
        /\ nops' # nops
        /\ fault' = "no"
        /\ op'.name = "open"
        /\ op'.args = op.args) => op'.ret = 0]_vars

(***************************************************************************)
(* Properties of read and write.                                           *)
(***************************************************************************)
\* C11: after every write of n bytes on a handle, the size of the handle is
\* the larger of its size before the write and its offset after the
\* transfer.
C11_WriteGrowsSize ==
    [][(/\ nops' # nops
        /\ fault' = "no"
        /\ op'.name = "write"
        /\ op'.ret >= 0
        /\ heap[op'.args[1]].state = "live") =>
            heap'[op'.args[1]].size
                = (IF heap'[op'.args[1]].offset > heap[op'.args[1]].size
                   THEN heap'[op'.args[1]].offset
                   ELSE heap[op'.args[1]].size)]_vars

\* C12: a read(handle, buf, n, offset) whose offset is the size of the file
\* returns 0 bytes and no error, whatever the size.
C12_ReadAtSizeReturnsZero ==
    (/\ fault = "no"
     /\ op.name = "read"
     /\ heap[op.args[1]].state = "live"
     /\ heap[op.args[1]].size = op.args[3]) => op.ret.ret = 0

\* C13: a write(handle, buf, n, offset) is refused exactly when offset is
\* above the size: then it returns an error and changes neither the data
\* nor the size; with offset <= size (offset = size is an append) it
\* transfers the bytes.
C13_WriteRefusedOnlyPastSize ==
    [][(/\ nops' # nops
        /\ fault' = "no"
        /\ op'.name = "write"
        /\ heap[op'.args[1]].state = "live") =>
            IF op'.args[3] > heap[op'.args[1]].size
            THEN /\ op'.ret < 0
                 /\ disk' = disk
                 /\ heap'[op'.args[1]].size = heap[op'.args[1]].size
            ELSE op'.ret = Len(op'.args[2])]_vars

(***************************************************************************)
(* Properties of truncate.  A file is the slot of the root directory that  *)
(* lists its name, and the chain its starting cluster heads in the table.  *)
(***************************************************************************)
SlotOf(n) == CHOOSE p \in UsedSlots : disk[p[1]][p[2]].fname = n
EntryOf(n) == disk[SlotOf(n)[1]][SlotOf(n)[2]]
FileChain(n) == ChainFrom(fat, EntryOf(n).cluster, NrCells)

\* the unit at offset k of the file
ByteOf(n, k) == disk[FileChain(n)[(k \div CLUSTER_SIZE) + 1]][(k % CLUSTER_SIZE) + 1]

\* the step is truncate(<<n>>, len) on a file the root directory lists and
\* that may be written
Truncated(n, len) ==
    /\ nops' # nops
    /\ fault' = "no"
    /\ op'.name = "truncate"
    /\ op'.args = <<<<n>>, len>>
    /\ Listed(n)
    /\ EntryOf(n).attributes = 0

\* C14: after truncate(path, len) with len below the old size (len = 0
\* included) the chain of the file holds ceil(len / cluster_size) clusters,
\* the cell of its last cluster is an end-of-chain mark, every cluster taken
\* from the chain is free in the table and lies in the free-space map, and
\* the size of the file is len.
C14_TruncateShrinks ==
    [][\A n \in Names, len \in Lengths :
          (Truncated(n, len) /\ len < EntryOf(n).size) =>
              /\ Listed(n)'
              /\ EntryOf(n)'.size = len
              /\ Len(FileChain(n)') = count_clusters(len)
              /\ len > 0 => IS_LAST_CLUSTER(fat'[FileChain(n)'[count_clusters(len)]])
              /\ \A c \in Range(FileChain(n)) \ Range(FileChain(n)') :
                    /\ IS_FREE_CLUSTER(fat'[c])
                    /\ \E k \in 1 .. Len(free_map') :
                          /\ free_map'[k].start <= c
                          /\ c < free_map'[k].start + free_map'[k].length]_vars

\* C15: after truncate(path, len) with len above the old size the size of
\* the file is len, its chain holds ceil(len / cluster_size) clusters, the
\* bytes from the old size up to len are zero and the bytes below the old
\* size are as they were.
C15_TruncateGrows ==
    [][\A n \in Names, len \in Lengths :
          (Truncated(n, len) /\ len > EntryOf(n).size) =>
              /\ Listed(n)'
              /\ EntryOf(n)'.size = len
              /\ Len(FileChain(n)') = count_clusters(len)
              /\ \A k \in 0 .. (len - 1) :
                    ByteOf(n, k)' = IF k < EntryOf(n).size THEN ByteOf(n, k) ELSE NoSlot]_vars

(***************************************************************************)
(* Properties of the operations that take a path.                          *)
(***************************************************************************)
\* C16: an operation that takes a path returns, on its success path and on
\* every error path, with every handle it opened closed again: the handle
\* table and the table of active directories hold the same handles with the
\* same reference counts as before the operation.  The operations that are
\* given a path and hand no handle to the client are the six named here.
C16_PathOpsCloseWhatTheyOpen ==
    [][(/\ nops' # nops
        /\ fault' = "no"
        /\ op'.name \in {"getattr", "truncate", "utimens", "rename", "mknod", "unlink"}) =>
          /\ Range(files_list') = Range(files_list)
          /\ Range(active_dirs') = Range(active_dirs)]_vars

\* C18: unlink, truncate to a smaller length and set-times on an entry whose
\* read-only attribute is set return permission-denied and leave the
\* directory slot, the table, the free-space map and the flags of the
\* handles as they were.
C18_ReadOnlyRefused ==
    [][\A n \in Names :
          (/\ nops' # nops
           /\ fault' = "no"
           /\ Listed(n)
           /\ HasAttr(EntryOf(n).attributes, ATTR_READ_ONLY)
           /\ \/ op'.name \in {"unlink", "utimens"} /\ op'.args = <<<<n>>>>
              \/ /\ op'.name = "truncate"
                 /\ op'.args[1] = <<n>>
                 /\ op'.args[2] < EntryOf(n).size) =>
              /\ op'.ret = 0 - EACCES
              /\ disk' = disk
              /\ fat' = fat
              /\ free_map' = free_map
              /\ \A fd \in HandleIds : heap'[fd].flags = heap[fd].flags]_vars

\* C19: unlink or rmdir of a directory that holds a slot whose name is not
\* one of ".", ".." and the empty name returns not-empty and sets the
\* delete-on-close flag of no handle, in every state, also when the
\* directory is open through a handle whose position is not 0.
C19_FullDirectoryKept ==
    [][\A n \in Names :
          (/\ nops' # nops
           /\ fault' = "no"
           /\ op'.name = "unlink"
           /\ op'.args = <<<<n>>>>
           /\ Listed(n)
           /\ EntryOf(n).attributes = ATTR_DIRECTORY
           /\ \E p \in DirSlots(EntryOf(n).cluster) :
                 ~is_reserved_name(disk[p[1]][p[2]].fname)) =>
              /\ op'.ret = 0 - ENOTEMPTY
              /\ \A fd \in HandleIds : heap'[fd].flags = heap[fd].flags]_vars

\* C20: after a rename(old, new) that returned 0 the directory does not list
\* old, it lists new with the starting cluster, the size and the attributes
\* old had, and every other entry of the directory is still there,
\* unchanged.
C20_RenameMovesEntry ==
    [][\A o \in Names : \A n \in Names \ {o} :
          (/\ nops' # nops
           /\ fault' = "no"
           /\ op'.name = "rename"
           /\ op'.args = <<<<o>>, <<n>>>>
           /\ op'.ret = 0
           /\ Listed(o)) =>
              /\ ~Listed(o)'
              /\ Listed(n)'
              /\ EntryOf(n)' = [EntryOf(o) EXCEPT !.fname = n]
              /\ \A p \in UsedSlots :
                    disk[p[1]][p[2]].fname \notin {o, n} =>
                        \E q \in UsedSlots' : disk'[q[1]][q[2]] = disk[p[1]][p[2]]]_vars

\* C21: fat_rename(oldpath, newpath) returns a negative error code and
\* changes no directory when newpath names an existing file, when oldpath
\* does not name an existing file, or when a directory on newpath does not
\* exist.  The paths here are names of the root directory, which exists.
C21_RenameRefused ==
    [][\A o \in Names : \A n \in Names \ {o} :
          (/\ nops' # nops
           /\ fault' = "no"
           /\ op'.name = "rename"
           /\ op'.args = <<<<o>>, <<n>>>>
           /\ Listed(n) \/ ~Listed(o)) =>
              /\ op'.ret < 0
              /\ disk' = disk]_vars

(***************************************************************************)
(* Properties of create.                                                   *)
(***************************************************************************)
\* C26: creating a new file allocates its first cluster at the midpoint of
\* the largest free region (the first such region on ties), removes exactly
\* that cluster from the free-space map by shrinking the region or
\* splitting it in two, and marks the cluster's cell end-of-chain.  A free
\* region is a maximal run of free cells of the table; the midpoint of a
\* run of even length is either of its two middle clusters.
C26_CreateTakesMidpoint ==
    [][\A n \in Names :
          LET free == {c \in 2 .. (NrCells - 1) : IS_FREE_CLUSTER(fat[c])}
              runs == {r \in (2 .. (NrCells - 1)) \X (1 .. NrCells) :
                         /\ \A c \in r[1] .. (r[1] + r[2] - 1) : c \in free
                         /\ (r[1] - 1) \notin free
                         /\ (r[1] + r[2]) \notin free}
              big == CHOOSE r \in runs :
                        \A q \in runs : q[2] < r[2] \/ (q[2] = r[2] /\ r[1] <= q[1])
              covered(map) == UNION {map[k].start .. (map[k].start + map[k].length - 1) :
                                       k \in 1 .. Len(map)}
          IN  (/\ nops' # nops
               /\ fault' = "no"
               /\ op'.name = "mknod"
               /\ op'.args = <<<<n>>>>
               /\ op'.ret = 0
               /\ runs # {}) =>
                  \E c \in {big[1] + (big[2] \div 2), big[1] + ((big[2] - 1) \div 2)} :
                      /\ IS_LAST_CLUSTER(fat'[c])
                      /\ covered(free_map') = covered(free_map) \ {c}]_vars

(***************************************************************************)
(* Properties of readdir.                                                  *)
(***************************************************************************)
\* C22: every readdir call terminates: it stops when the filler callback
\* returns 1 or when it reaches the first slot whose name is empty (or the
\* end of the directory file), whichever comes first, also when the
\* callback never reports full.  A call that stops there returns, and has
\* given the filler no name behind an empty one.
C22_ReaddirTerminates ==
    op.name = "readdir" =>
        /\ fault # "spin"
        /\ \A i \in 1 .. (Len(op.ret.names) - 1) : op.ret.names[i] # ""

(***************************************************************************)
(* Properties of path resolution.  open returns what fat_lookup_dir        *)
(* returned when that is not 0; getattr returns the attributes of the slot *)
(* fat_lookup_dir copied and closes the one handle it left open.           *)
(***************************************************************************)
\* C28: path resolution of /c1/.../cn fails with not-a-directory when a
\* component before the last resolves to a non-directory, and with
\* no-such-entry when a component has no slot of its name in its parent;
\* when it succeeds it has copied the final slot and has left one handle
\* open, the parent's, so that after getattr has closed that handle the
\* live handles are those of before.  Stated of the calls that return.
C28_LookupOutcome ==
    [][LET live(hp) == {fd \in HandleIds : hp[fd].state = "live"}
           lookup(path) == /\ op'.name \in {"open", "getattr"}
                           /\ op'.args = <<path>>
                           /\ nops' = nops + 1
                           /\ fault' = "no"
           ret == IF op'.name = "open" THEN op'.ret ELSE op'.ret.ret
       IN  /\ \A n \in Names :
                 lookup(<<n, "C">>) /\ Listed(n)
                     /\ ~HasAttr(EntryOf(n).attributes, ATTR_DIRECTORY)
                 => ret = 0 - ENOTDIR
           /\ \A path \in OpenPaths \ {<<>>} :
                 lookup(path) /\ ~Listed(path[1]) => ret = 0 - ENOENT
           /\ \A n \in Names :
                 lookup(<<n>>) /\ op'.name = "getattr" /\ ret = 0
                 => /\ Listed(n)
                    /\ op'.ret.attrs = unpack_attributes(EntryOf(n))
                    /\ live(heap') = live(heap)]_vars

(***************************************************************************)
(* Properties of open handles.  The handles the kernel holds are those of  *)
(* fhs.                                                                    *)
(***************************************************************************)
\* C33: for every open handle, after open, after every write that extends
\* the file and after every truncate, the cluster list of the handle is the
\* sequence found by walking the table from the file's starting cluster to
\* the end-of-chain mark: the same clusters in the same order.
C33_ListMirrorsChain ==
    fault = "no" =>
        \A k \in 1 .. Len(fhs) :
            heap[fhs[k]].state = "live" /\ heap[fhs[k]].clusters # <<>> =>
                heap[fhs[k]].clusters
                    = ChainFrom(fat, heap[fhs[k]].clusters[1], NrCells)

\* C34: after every fat_seek, fat_read and fat_write on a handle, the
\* current-cluster cursor of the handle is the element of its cluster list
\* at position floor(offset / cluster_size), or is empty when the list has no
\* element there.  Every change of an offset is made by one of the three, so
\* this holds of every handle in every state.
C34_CursorFollowsOffset ==
    fault = "no" =>
        \A fd \in HandleIds :
            heap[fd].state = "live" =>
                heap[fd].current_cluster
                    = IF (heap[fd].offset \div CLUSTER_SIZE) + 1 <= Len(heap[fd].clusters)
                      THEN (heap[fd].offset \div CLUSTER_SIZE) + 1
                      ELSE 0

\* a read or a write has moved the cursor of an open file beyond its first
\* cluster
C34_CursorMoved ==
    /\ fault = "no"
    /\ op.name \in {"read", "write"}
    /\ heap[op.args[1]].state = "live"
    /\ heap[op.args[1]].offset >= CLUSTER_SIZE
    /\ heap[op.args[1]].current_cluster = (heap[op.args[1]].offset \div CLUSTER_SIZE) + 1
    /\ heap[op.args[1]].current_cluster > 1

\* C35: for every handle of a file in every reachable state,
\* 0 <= offset <= size <= cluster_count(chain) * cluster_size: a read does
\* not advance the offset past the size, and a truncate does not leave the
\* size above the allocated extent.
C35_OffsetSizeExtent ==
    fault = "no" =>
        \A fd \in HandleIds :
            heap[fd].state = "live" /\ ~is_directory(St, fd) =>
                /\ 0 <= heap[fd].offset
                /\ heap[fd].offset <= heap[fd].size
                /\ heap[fd].size <= Len(heap[fd].clusters) * CLUSTER_SIZE

(***************************************************************************)
(* Properties of the slots of a directory.                                 *)
(***************************************************************************)
\* C36: after the entries of the root directory were written and deleted,
\* no unused slot of the directory comes before a slot in use: the slots in
\* use are a prefix of the slots of its chain.
C36_UsedSlotsArePrefix ==
    fault = "no" =>
        LET n == Len(RootChain) * CLUSTER_SIZE
            cl(i) == RootChain[((i - 1) \div CLUSTER_SIZE) + 1]
            name(i) == IF cl(i) \in DOMAIN disk
                       THEN disk[cl(i)][((i - 1) % CLUSTER_SIZE) + 1].fname
                       ELSE ""
        IN  \A i, k \in 1 .. n : i < k /\ name(i) = "" => name(k) = ""

\* C37: dir_delete_entry removes the record at index and no other.  rename
\* is the caller of it that the daemon reaches: of a rename of the listed
\* file o to n that returns 0, the records in use afterwards, the renamed
\* record aside, are the records that were in use without the record of o.
C37_DeleteRemovesOneRecord ==
    [][\A o \in Names : \A n \in Names \ {o} :
          LET recs == {disk[p[1]][p[2]] : p \in UsedSlots} IN
          (/\ op'.name = "rename" /\ op'.args = <<(<<o>>), (<<n>>)>>
           /\ nops' = nops + 1 /\ fault' = "no" /\ op'.ret = 0 /\ Listed(o))
          => recs' \ {[EntryOf(o) EXCEPT !.fname = n]} = recs \ {EntryOf(o)}]_vars

\* C39: the slot at dir_entry_index of the directory of an open handle is
\* the entry of the handle's file, the one that starts at the file's first
\* cluster, also after other entries of the directory were deleted or
\* renamed.  The handles are those of the files of the root directory.
C39_IndexNamesOwnSlot ==
    fault = "no" =>
        LET slot(i) == IF (i \div CLUSTER_SIZE) + 1 \in 1 .. Len(RootChain)
                          /\ RootChain[(i \div CLUSTER_SIZE) + 1] \in DOMAIN disk
                       THEN disk[RootChain[(i \div CLUSTER_SIZE) + 1]][(i % CLUSTER_SIZE) + 1]
                       ELSE NoSlot
        IN  \A k \in 1 .. Len(fhs) :
               (/\ heap[fhs[k]].state = "live"
                /\ heap[fhs[k]].name \in Names
                /\ heap[fhs[k]].clusters # <<>>) =>
                   /\ slot(heap[fhs[k]].dir_entry_index).fname # ""
                   /\ slot(heap[fhs[k]].dir_entry_index).cluster = heap[fhs[k]].clusters[1]

(***************************************************************************)
(* Properties of the FUSE loop.                                            *)
(***************************************************************************)
\* C17: no two operations interleave on the process-wide state: a request
\* runs to completion on the free-space map, the table and the statistics
\* before another request touches them, also when several threads of the
\* bridge dispatch requests.  A thread that has chosen a cluster for its
\* request and has not returned is midway; no thread runs a statement of its
\* request while another is midway.
C17_RequestsRunToCompletion ==
    [][\A t \in Threads :
          (threads[t].pc # "idle" /\ threads'[t] # threads[t]) =>
              \A u \in Threads \ {t} :
                  threads[u].pc \notin {"put_end", "put_link", "stats"}]_vars

(***************************************************************************)
(* Properties of the free-space map.                                       *)
(***************************************************************************)
\* The data clusters are those of index 2 and above (fat.h, CLUSTER_OFFSET).
data_cluster_count == NrCells - 2

\* C2: after init_clusters_map and after every new_cluster and
\* release_cluster, the regions of the free list have strictly increasing
\* starts and positive lengths, and consecutive regions are neither
\* adjacent nor overlapping (a.start + a.length < b.start).
C2_RegionsOrderedAndApart ==
    fault = "no" =>
        /\ \A k \in 1 .. Len(free_map) : free_map[k].length # 0
        /\ \A k \in 1 .. (Len(free_map) - 1) :
              /\ ULT(free_map[k].start, free_map[k + 1].start)
              /\ ULT(free_map[k].start + free_map[k].length, free_map[k + 1].start)

\* C3: from the end of mount on, used_clusters() + free_clusters() is the
\* number of data clusters of the volume.
C3_CountersSumToDataClusters ==
    fault = "no" => used_clusters + free_clusters = data_cluster_count

\* C23: whenever a chain is extended by one cluster through
\* new_cluster(tail) and at least one of the clusters tail - 1 and tail + 1
\* is free, the cluster returned is tail - 1 or tail + 1, for every layout
\* of the free-region list.
C23_NeighbourTaken ==
    [][\A tail \in Cells :
          (/\ nops' # nops
           /\ fault' = "no"
           /\ op'.name = "new_cluster"
           /\ op'.args = <<tail>>
           /\ \E c \in {tail - 1, tail + 1} \cap Cells : IS_FREE_CLUSTER(fat[c])) =>
              op'.ret \in {tail - 1, tail + 1}]_vars

\* C24: for every allocated cluster c and every state of the free-space
\* map, release_cluster(c) followed at once by new_cluster(c - 1), with no
\* other allocation or release in between, returns c.
C24_ReleasedTakenBack ==
    [][\A c \in Cells :
          (/\ fault = "no"
           /\ op.name = "release_cluster"
           /\ op.args = <<c>>
           /\ nops' # nops
           /\ fault' = "no"
           /\ op'.name = "new_cluster"
           /\ op'.args = <<c - 1>>) => op'.ret = c]_vars

\* C25: when the allocator is invoked while the free-space map holds no
\* region (no entry of the list has a cluster to give), the operation fails
\* with out-of-space: it returns, hands out no cluster, writes no cell of
\* the table, and leaves the counters and the region list unchanged, so a
\* chain that was being extended is intact up to its last cluster.
C25_EmptyMapRefuses ==
    [][(/\ nops' # nops
        /\ op'.name = "new_cluster"
        /\ \A k \in 1 .. Len(free_map) : free_map[k].length = 0) =>
            /\ fault' = "no"
            /\ op'.ret \notin Cells
            /\ fat' = fat
            /\ free_map' = free_map
            /\ nr_allocated_clusters' = nr_allocated_clusters
            /\ nr_available_clusters' = nr_available_clusters]_vars

\* C29: immediately after init_clusters_map, for every content of the
\* table, the free-region list is exactly the maximal runs of consecutive
\* free cells among the data clusters, each with start the index of the
\* run's first cell and length the run's cell count, in increasing order
\* of start, and free_clusters() is the sum of the lengths.
C29_MapIsMaximalRuns ==
    LET free(c) == c \in 2 .. (NrCells - 1) /\ IS_FREE_CLUSTER(fat[c])
        runs == {r \in (2 .. (NrCells - 1)) \X (1 .. NrCells) :
                    /\ \A c \in r[1] .. (r[1] + r[2] - 1) : free(c)
                    /\ ~free(r[1] - 1)
                    /\ ~free(r[1] + r[2])}
        total == Cardinality({p \in (1 .. Len(free_map)) \X (1 .. NrCells) :
                                p[2] <= free_map[p[1]].length})
    IN  op.name = "mount" =>
            /\ Len(free_map) = Cardinality(runs)
            /\ \A k \in 1 .. Len(free_map) :
                  <<free_map[k].start, free_map[k].length>> \in runs
            /\ \A k \in 1 .. (Len(free_map) - 1) :
                  free_map[k].start < free_map[k + 1].start
            /\ free_clusters = total

\* C30: starting from a free-region list that covers exactly the free
\* cells of the table, every release_cluster(c) of an allocated cluster, in
\* each neighbour case, and every new_cluster(near) leaves the list
\* covering exactly the free cells, with free_clusters() the sum of the
\* region lengths.  Stated of the calls that return, and of new_cluster
\* when there is a free cell to give.
C30_MapCoversFreeCells ==
    [][LET covered(map) == UNION {map[k].start .. (map[k].start + map[k].length - 1) :
                                    k \in 1 .. Len(map)}
           free(f) == {c \in 2 .. (NrCells - 1) : IS_FREE_CLUSTER(f[c])}
           total(map) == Cardinality({p \in (1 .. Len(map)) \X (1 .. NrCells) :
                                        p[2] <= map[p[1]].length})
       IN  (/\ covered(free_map) = free(fat)
            /\ free_clusters = total(free_map)
            /\ nops' # nops
            /\ fault' = "no"
            /\ op'.name \in {"new_cluster", "release_cluster"}
            /\ op'.name = "new_cluster" => free(fat) # {}) =>
               /\ covered(free_map') = free(fat')
               /\ free_clusters' = total(free_map')]_vars

C38_ReturnedClusterWasFree ==
    [][(/\ nops' # nops
        /\ fault' = "no"
        /\ op'.name = "new_cluster") =>
           /\ op'.ret \in Cells
           /\ op'.ret >= 2
           /\ IS_FREE_CLUSTER(fat[op'.ret])]_vars

(***************************************************************************)
(* Properties of the FAT cache.                                            *)
(***************************************************************************)
LiveNodes == {a \in NodeAddrs : cache.mem[a].state = "live"}

\* C4: after any interleaving of get_fat_entry and put_fat_entry every
\* cached sector buffer equals that sector on the device, and
\* get_fat_entry(i) returns what the device holds in cell i, the value
\* put_fat_entry wrote there last.
C4_CacheEqualsDevice ==
    fault = "no" =>
        /\ \A a \in LiveNodes :
              cache.mem[a].sector = FatSector(fat, volume_info, cache.mem[a].key)
        /\ op.name = "get_fat_entry" => op.ret = fat[op.args[1]]

\* C5: a call put_fat_entry(i, v) leaves the top four bits of cell i on the
\* device as they were, sets its low 28 bits to those of v, and changes no
\* other cell.
C5_PutKeepsReservedBits ==
    [][(nops' # nops /\ op'.name = "put_fat_entry") =>
        LET i == op'.args[1]
            v == op'.args[2]
        IN  /\ HighBits(fat'[i]) = HighBits(fat[i])
            /\ LowBits(fat'[i]) = LowBits(v)
            /\ \A j \in Cells \ {i} : fat'[j] = fat[j]]_vars

\* A put whose value carries reserved bits other than those of the cell it
\* is written to, the cell's own being set.
C5_PutOverReservedBits ==
    /\ op.name = "put_fat_entry"
    /\ HighBits(op.args[2]) # 0
    /\ HighBits(fat[op.args[1]]) \notin {0, HighBits(op.args[2])}
    /\ LowBits(fat[op.args[1]]) = LowBits(op.args[2])

\* C32: for every sequence of get_fat_entry calls the sectors resident in
\* the cache and their recency order are those of an LRU cache of capacity
\* CACHE_SECTORS_MAX.  In steps: the sector asked for is at the
\* most-recently-used end afterwards; asking for a resident sector is a hit,
\* which brings nothing in and puts nothing out; a miss while there is room
\* adds the sector and puts nothing out; no more than CACHE_SECTORS_MAX
\* sectors are resident.  Stated of the calls that return.
C32_CacheIsLRU ==
    [][LET live(c) == {a \in NodeAddrs : c.mem[a].state = "live"}
           resident(c) == {c.mem[a].key : a \in live(c)}
       IN  \A entry \in Cells :
             (/\ nops' # nops
              /\ fault' = "no"
              /\ op'.name = "get_fat_entry"
              /\ op'.args = <<entry>>) =>
                LET s == entry \div volume_info.nr_entries IN
                /\ cache'.mru \in live(cache')
                /\ cache'.mem[cache'.mru].key = s
                /\ s \in resident(cache) => live(cache') = live(cache)
                /\ s \notin resident(cache)
                     /\ Cardinality(live(cache)) < CACHE_SECTORS_MAX
                   => resident(cache') = resident(cache) \cup {s}
                /\ Cardinality(live(cache')) <= CACHE_SECTORS_MAX]_vars

\* C40: after any sequence of get_fat_entry calls the list of the cache has
\* no cycle, holds at most one entry per sector of the table, and every
\* resident entry is reached by the walk of lookup_item from the lru link;
\* so every call of get_fat_entry terminates.
C40_CacheListSound ==
    LET live == {a \in NodeAddrs : cache.mem[a].state = "live"}
        walk[k \in 0 .. MaxNodes] ==
            IF k = 0 THEN cache.lru
            ELSE IF walk[k - 1] = 0 THEN 0 ELSE cache.mem[walk[k - 1]].next
    IN  /\ fault # "spin"
        /\ fault = "no" =>
              /\ walk[MaxNodes] = 0
              /\ \A a, b \in live : cache.mem[a].key = cache.mem[b].key => a = b
              /\ \A a \in live : \E k \in 0 .. MaxNodes : walk[k] = a

====
